---- MODULE Spec2Model ----
(***************************************************************************)
(* The household to-do application: the notices and shopping_list tables   *)
(* of the embedded store, the two repositories, and the route handlers of  *)
(* /notices and /shopping-list with their field validators and the central *)
(* error handler; the start of the process, the middleware chain ahead of  *)
(* the routes (rate limiters, session cookie, CSRF protection), and the    *)
(* form scripts of the pages.                                              *)
(*                                                                         *)
(* Text values are sequences of one-character strings, so that the         *)
(* validators and sanitizers (trim, escape, isInt, toInt) are computed     *)
(* character by character as the libraries do.  A request is handled in    *)
(* one step: the handlers and the store driver are synchronous.            *)
(***************************************************************************)
EXTENDS Integers, Sequences, FiniteSets, TLC

VARIABLES
    shopping_list,  \* rows of table shopping_list
    shopping_seq,   \* AUTOINCREMENT high-water mark of shopping_list
    notices,        \* rows of table notices
    notices_seq,    \* AUTOINCREMENT high-water mark of notices
    clock,          \* the store's datetime('now')
    req,            \* the request handled last
    res,            \* the response sent for it
    calls,          \* repository calls made while handling it, in order
    trace,          \* the stages it passed through, in order
    log,            \* what console.error printed while handling it
    before,         \* both tables as they were when it arrived
    assigned,       \* per table, the ids handed out by INSERT, in order
    deleted,        \* shopping ids removed by a DELETE statement
    lastToggle,     \* the successive toggles of one id just carried out
    arrival,        \* the store's time when the notice created last was sent
    process,        \* the server process: starting, running or exited
    db,             \* database.db and the handle that database.js exports
    NODE_ENV,       \* process.env.NODE_ENV
    hits,           \* the general limiter's count for the client address
    strictHits,     \* the strict limiter's count for the client address
    mw,             \* what the middleware chain did with the last request
    traffic,        \* the requests of the window so far, by kind
    inflight,       \* toggle requests sent and not yet handled
    toggles,        \* per shopping id, the toggles carried out so far
    forms,          \* the page's forms: submit control, error element
    settled,        \* per form, how its last submission ended
    browsers,       \* per browser, the checkboxes of the list it shows
    wire            \* the checkbox requests sent and not yet settled

routeVars == <<shopping_list, shopping_seq, notices, notices_seq, clock, req,
               res, calls, trace, log, before, assigned, deleted, lastToggle,
               arrival>>
chainVars == <<NODE_ENV, hits, strictHits, mw, traffic>>
raceVars == <<inflight, toggles>>
clientVars == <<forms, settled, browsers, wire>>

vars == <<routeVars, process, db, chainVars, raceVars, clientVars>>

----------------------------------------------------------------------------
(* Bounds of the model *)

MaxCreates == 2
MaxClock == 1
\* requests of one window explored beyond the general limiter's ceiling
MaxOver == 1
\* a window's requests to the resources follow its requests to other
\* paths, starting within MaxSlack requests of the general ceiling
MaxSlack == 2
\* POST requests of one window that fail the CSRF check
MaxForbidden == 2
\* toggle requests sent in all
MaxToggles == 3
\* error elements a delete form holds at once
MaxErrors == 2
\* checkbox clicks of all browsers together
MaxClicks == 2
\* restarts of the server process on one store file
MaxRestarts == 1
\* requests of one browser that starts without cookies
MaxVisits == 4

----------------------------------------------------------------------------
(* Text helpers *)

Range(s) == { s[i] : i \in 1..Len(s) }

Digits == {"0", "1", "2", "3", "4", "5", "6", "7", "8", "9"}

DigitVal(c) ==
    CASE c = "0" -> 0 [] c = "1" -> 1 [] c = "2" -> 2 [] c = "3" -> 3
      [] c = "4" -> 4 [] c = "5" -> 5 [] c = "6" -> 6 [] c = "7" -> 7
      [] c = "8" -> 8 [] c = "9" -> 9

IsWhitespace(c) == c \in {" ", "\t", "\n"}

RECURSIVE ltrim(_)
ltrim(s) ==
    IF s # <<>> /\ IsWhitespace(Head(s)) THEN ltrim(Tail(s)) ELSE s

RECURSIVE rtrim(_)
rtrim(s) ==
    IF s # <<>> /\ IsWhitespace(s[Len(s)])
    THEN rtrim(SubSeq(s, 1, Len(s) - 1))
    ELSE s

\* validator.js trim(): whitespace removed from both ends
trim(s) == rtrim(ltrim(s))

\* the grave accent (U+0060), which a string literal cannot hold
Backtick == "U+0060"

EscapeChar(c) ==
    CASE c = "&"  -> <<"&", "a", "m", "p", ";">>
      [] c = "\"" -> <<"&", "q", "u", "o", "t", ";">>
      [] c = "'"  -> <<"&", "#", "x", "2", "7", ";">>
      [] c = "<"  -> <<"&", "l", "t", ";">>
      [] c = ">"  -> <<"&", "g", "t", ";">>
      [] c = "/"  -> <<"&", "#", "x", "2", "F", ";">>
      [] c = "\\" -> <<"&", "#", "x", "5", "C", ";">>
      [] c = Backtick -> <<"&", "#", "9", "6", ";">>
      [] OTHER    -> <<c>>

\* validator.js escape(): HTML special characters replaced by entities
RECURSIVE escape(_)
escape(s) ==
    IF s = <<>> THEN <<>> ELSE EscapeChar(Head(s)) \o escape(Tail(s))

\* validator.js isEmpty() negated: the text has at least one character
notEmpty(s) == Len(s) # 0

RECURSIVE DigitsValue(_, _)
DigitsValue(s, acc) ==
    IF s = <<>> \/ Head(s) \notin Digits THEN acc
    ELSE DigitsValue(Tail(s), 10 * acc + DigitVal(Head(s)))

NaN == "NaN"

\* parseInt(s, 10): leading whitespace skipped, optional sign, then the
\* longest run of digits; NaN when there is none
parseInt(s) ==
    LET t == ltrim(s)
        signed == t # <<>> /\ Head(t) \in {"+", "-"}
        d == IF signed THEN Tail(t) ELSE t
    IN  IF d = <<>> \/ Head(d) \notin Digits THEN NaN
        ELSE IF signed /\ Head(t) = "-" THEN 0 - DigitsValue(d, 0)
        ELSE DigitsValue(d, 0)

\* validator.js int pattern /^(?:[-+]?(?:0|[1-9][0-9]*))$/
IntPattern(s) ==
    LET signed == s # <<>> /\ Head(s) \in {"+", "-"}
        d == IF signed THEN Tail(s) ELSE s
    IN  /\ d # <<>>
        /\ Range(d) \subseteq Digits
        /\ (Head(d) = "0" => Len(d) = 1)

\* validator.js isInt(str): the pattern alone
isInt(s) == IntPattern(s)

\* validator.js isInt(str, {min}): the pattern, then the lower limit
isIntMin(s, min) == IntPattern(s) /\ parseInt(s) >= min

\* validator.js toInt(): parseInt(str, 10)
toInt(s) == parseInt(s)

----------------------------------------------------------------------------
(* The store: two tables with INTEGER PRIMARY KEY AUTOINCREMENT ids *)

Ids(rows) == { r.id : r \in rows }

MaxOf(S) == IF S = {} THEN 0 ELSE CHOOSE m \in S : \A x \in S : x <= m

RowOf(rows, id) == CHOOSE r \in rows : r.id = id

\* (variant) a rowid table without AUTOINCREMENT: one more than the largest
\* id now in the table
NextRowidNoAutoincrement(rows, seq) == MaxOf(Ids(rows)) + 1

\* AUTOINCREMENT: one more than the largest id the table has ever held
NextRowid(rows, seq) == MaxOf(Ids(rows) \cup {seq}) + 1

\* (variant) ORDER BY id ASC
RECURSIVE OrderByIdAsc(_)
OrderByIdAsc(rows) ==
    IF rows = {} THEN <<>>
    ELSE LET top == RowOf(rows, MaxOf(Ids(rows)))
         IN  OrderByIdAsc(rows \ {top}) \o <<top>>

\* SELECT * FROM t ORDER BY id DESC
RECURSIVE OrderByIdDesc(_)
OrderByIdDesc(rows) ==
    IF rows = {} THEN <<>>
    ELSE LET top == RowOf(rows, MaxOf(Ids(rows)))
         IN  <<top>> \o OrderByIdDesc(rows \ {top})

\* (variant) the item and store parameters bound the other way round
InsertShoppingSwapped(rows, seq, item, quantity, store, now) ==
    rows \cup {[id |-> NextRowid(rows, seq), item |-> store,
                quantity |-> quantity, store |-> item, checked |-> 0,
                created_at |-> now]}

\* INSERT INTO shopping_list (item, quantity, store, checked)
\*   VALUES (?, ?, ?, 0); created_at takes its DEFAULT
InsertShopping(rows, seq, item, quantity, store, now) ==
    rows \cup {[id |-> NextRowid(rows, seq), item |-> item,
                quantity |-> quantity, store |-> store, checked |-> 0,
                created_at |-> now]}

\* (variant) a created_at default fixed when the table was created
InsertNoticeEpoch(rows, seq, name, message, now) ==
    rows \cup {[id |-> NextRowid(rows, seq), name |-> name,
                message |-> message, created_at |-> 0]}

\* INSERT INTO notices (name, message) VALUES (?, ?)
InsertNotice(rows, seq, name, message, now) ==
    rows \cup {[id |-> NextRowid(rows, seq), name |-> name,
                message |-> message, created_at |-> now]}

\* DELETE FROM shopping_list WHERE id = ?
\* (variant) DELETE FROM shopping_list WHERE id <= ?
DeleteWhereIdAtMost(rows, id) == { r \in rows : r.id > id }

DeleteWhereId(rows, id) == { r \in rows : r.id # id }

\* (variant) UPDATE shopping_list SET checked = checked + 1 WHERE id = ?
UpdateIncrement(rows, id) ==
    { IF r.id = id THEN [r EXCEPT !.checked = r.checked + 1] ELSE r
      : r \in rows }

\* (variant) UPDATE shopping_list SET checked = 1 WHERE id = ?
UpdateSetChecked(rows, id) ==
    { IF r.id = id THEN [r EXCEPT !.checked = 1] ELSE r : r \in rows }

\* (variant) the UPDATE without its WHERE clause
UpdateToggleAll(rows, id) ==
    { [r EXCEPT !.checked = 1 - r.checked] : r \in rows }

\* UPDATE shopping_list SET checked = 1 - checked WHERE id = ?
UpdateToggle(rows, id) ==
    { IF r.id = id THEN [r EXCEPT !.checked = 1 - r.checked] ELSE r
      : r \in rows }

\* rows a WHERE id = ? statement touches: the result's `changes`
Changes(rows, id) == Cardinality({ r \in rows : r.id = id })

----------------------------------------------------------------------------
(* Store failures: a statement either runs or throws the driver's error *)

NoError == "none"
DbErrors == {"SQLITE_BUSY"}
DbOutcomes == {NoError} \cup DbErrors

----------------------------------------------------------------------------
(* Repositories.  Each operation yields what it returned or threw, what it *)
(* logged, and the table after it.                                         *)

Returned(rows, seq, changes, lastId, value) ==
    [threw |-> FALSE, message |-> "", logged |-> <<>>, rows |-> rows,
     seq |-> seq, changes |-> changes, lastInsertRowid |-> lastId,
     value |-> value]

\* a catch block that throws the driver's error on
ThrewDriverError(rows, seq, label, dberr, message) ==
    [threw |-> TRUE, message |-> dberr, logged |-> <<label, dberr>>,
     rows |-> rows, seq |-> seq, changes |-> 0, lastInsertRowid |-> 0,
     value |-> <<>>]

\* catch (error) { console.error(label, error); throw new Error(message) }
Threw(rows, seq, label, dberr, message) ==
    [threw |-> TRUE, message |-> message, logged |-> <<label, dberr>>,
     rows |-> rows, seq |-> seq, changes |-> 0, lastInsertRowid |-> 0,
     value |-> <<>>]

ShoppingRepository_getAll(rows, seq, dberr) ==
    IF dberr = NoError
    THEN Returned(rows, seq, 0, 0, OrderByIdDesc(rows))
    ELSE Threw(rows, seq, "Error fetching shopping list:", dberr,
               "Failed to retrieve shopping list from database")

ShoppingRepository_create(rows, seq, item, quantity, store, now, dberr) ==
    IF dberr = NoError
    THEN LET id == NextRowid(rows, seq)
         IN  Returned(InsertShopping(rows, seq, item, quantity, store, now),
                      id, 1, id, <<>>)
    ELSE Threw(rows, seq, "Error creating shopping item:", dberr,
               "Failed to create shopping item in database")

\* (variant) a delete that throws when no row matches
ShoppingRepository_deleteStrict(rows, seq, id, dberr) ==
    IF dberr = NoError /\ Changes(rows, id) = 1
    THEN Returned(DeleteWhereId(rows, id), seq, 1, 0, <<>>)
    ELSE Threw(rows, seq, "Error deleting shopping item:", dberr,
               "Failed to delete shopping item from database")

ShoppingRepository_delete(rows, seq, id, dberr) ==
    IF dberr = NoError
    THEN Returned(DeleteWhereId(rows, id), seq, Changes(rows, id), 0, <<>>)
    ELSE Threw(rows, seq, "Error deleting shopping item:", dberr,
               "Failed to delete shopping item from database")

ShoppingRepository_toggleCheck(rows, seq, id, dberr) ==
    IF dberr = NoError
    THEN Returned(UpdateToggle(rows, id), seq, Changes(rows, id), 0, <<>>)
    ELSE Threw(rows, seq, "Error toggling shopping item:", dberr,
               "Failed to toggle shopping item in database")

NoticeRepository_getAll(rows, seq, dberr) ==
    IF dberr = NoError
    THEN Returned(rows, seq, 0, 0, OrderByIdDesc(rows))
    ELSE Threw(rows, seq, "Error fetching notices:", dberr,
               "Failed to retrieve notices from database")

NoticeRepository_create(rows, seq, name, message, now, dberr) ==
    IF dberr = NoError
    THEN LET id == NextRowid(rows, seq)
         IN  Returned(InsertNotice(rows, seq, name, message, now),
                      id, 1, id, <<>>)
    ELSE Threw(rows, seq, "Error creating notice:", dberr,
               "Failed to create notice in database")

----------------------------------------------------------------------------
(* Requests and responses *)

Body(item, quantity, store, name, message, id) ==
    [item |-> item, quantity |-> quantity, store |-> store, name |-> name,
     message |-> message, id |-> id]

Request(method, path, body, accept, xhr) ==
    [method |-> method, path |-> path, body |-> body,
     headers |-> [accept |-> accept, xhr |-> xhr]]

NoBody == Body(<<>>, <<>>, <<>>, <<>>, <<>>, <<>>)
NoRequest == Request("", "", NoBody, "", FALSE)

Response(status, kind, location, view, errors, success, error, list) ==
    [status |-> status, kind |-> kind, location |-> location, view |-> view,
     errors |-> errors, success |-> success, error |-> error, list |-> list]

NoResponse == Response(0, "none", "", "", <<>>, FALSE, "", <<>>)

\* res.status(400).json({ errors: errors.array() })
JsonErrors(errors) == Response(400, "json", "", "", errors, FALSE, "", <<>>)

\* res.json({ success: true })
JsonSuccess == Response(200, "json", "", "", <<>>, TRUE, "", <<>>)

\* res.redirect(location)
Redirect(location) == Response(302, "redirect", location, "", <<>>, FALSE, "", <<>>)

\* res.render(view, { list })
Render(view, list) == Response(200, "render", "", view, <<>>, FALSE, "", list)

FieldError(path, msg) == [path |-> path, msg |-> msg]

\* req.headers.accept?.includes('json') || req.xhr
isApiRequest(r) ==
    r.headers.accept \in {"application/json", "text/json"} \/ r.headers.xhr

\* (variant) an error handler that answers 500 whatever the error's status
errorHandlerAlways500(err, r) ==
    IF isApiRequest(r)
    THEN Response(500, "json", "", "", <<>>, FALSE,
                  IF err.message = "" THEN "Internal Server Error"
                  ELSE err.message, <<>>)
    ELSE Response(500, "render", "", "error", <<>>, FALSE, err.message, <<>>)

\* the central error handler: status err.status || 500, then a JSON body
\* for API requests and the rendered error page for the others
errorHandler(err, r) ==
    LET status == IF err.status = 0 THEN 500 ELSE err.status
    IN  IF isApiRequest(r)
        THEN Response(status, "json", "", "", <<>>, FALSE,
                      IF err.message = "" THEN "Internal Server Error"
                      ELSE err.message, <<>>)
        ELSE Response(status, "render", "", "error", <<>>, FALSE,
                      err.message, <<>>)

\* one repository call: its arguments, whether the store's statement ran,
\* and what the call returned or threw
Call(repo, op, args, dberr, o) ==
    [repo |-> repo, op |-> op, args |-> args, store |-> dberr,
     threw |-> o.threw, changes |-> o.changes,
     lastInsertRowid |-> o.lastInsertRowid]

Outcome(response, called, stages, logged, srows, sseq, nrows, nseq) ==
    [res |-> response, calls |-> called, trace |-> stages, log |-> logged,
     shopping_list |-> srows, shopping_seq |-> sseq,
     notices |-> nrows, notices_seq |-> nseq]

\* the handler answered 400 before any repository call
Rejected(errors) ==
    Outcome(JsonErrors(errors), <<>>,
            <<"received", "validated", "rejected", "responded">>, <<>>,
            shopping_list, shopping_seq, notices, notices_seq)

\* catch (error) { next(error) }: the error handler answers
\* (variant) a catch block that answers before it calls next(error)
ForwardedAfterResponse(r, call, o, stages) ==
    Outcome(errorHandler([message |-> o.message, status |-> 0], r),
            <<call>>, stages \o <<"responded", "forwarded", "responded">>,
            o.logged, shopping_list, shopping_seq, notices, notices_seq)

Forwarded(r, call, o, stages) ==
    Outcome(errorHandler([message |-> o.message, status |-> 0], r),
            <<call>>, stages \o <<"forwarded", "responded">>, o.logged,
            shopping_list, shopping_seq, notices, notices_seq)

----------------------------------------------------------------------------
(* Validation chains of the routes: the field errors of a body, in order *)

Check(ok, path, msg) == IF ok THEN <<>> ELSE <<FieldError(path, msg)>>

\* POST /shopping-list/add: the body as the sanitizers leave it
ShoppingAddSanitized(b) ==
    [b EXCEPT !.item = escape(trim(b.item)),
              !.quantity = trim(b.quantity),
              !.store = escape(trim(b.store))]

\* (variant) quantity checked with isInt() without its lower limit
ShoppingAddErrorsNoMin(b) ==
    LET c == ShoppingAddSanitized(b)
    IN  Check(notEmpty(c.item), "item", "Item is required")
        \o Check(isInt(c.quantity), "quantity",
                 "Quantity must be at least 1")
        \o Check(notEmpty(c.store), "store", "Store is required")

ShoppingAddErrors(b) ==
    LET c == ShoppingAddSanitized(b)
    IN  Check(notEmpty(c.item), "item", "Item is required")
        \o Check(isIntMin(c.quantity, 1), "quantity",
                 "Quantity must be at least 1")
        \o Check(notEmpty(c.store), "store", "Store is required")

\* POST /shopping-list/delete and /check: body('id').isInt().toInt()
IdErrors(b) == Check(isInt(b.id), "id", "ID must be a valid integer")

\* POST /notices/add
NoticeAddSanitized(b) ==
    [b EXCEPT !.name = escape(trim(b.name)),
              !.message = escape(trim(b.message))]

\* (variant) notEmpty() applied to the fields as sent, before trim()
NoticeAddErrorsNoTrim(b) ==
    Check(notEmpty(b.name), "name", "Name is required")
    \o Check(notEmpty(b.message), "message", "Message is required")

NoticeAddErrors(b) ==
    LET c == NoticeAddSanitized(b)
    IN  Check(notEmpty(c.name), "name", "Name is required")
        \o Check(notEmpty(c.message), "message", "Message is required")

----------------------------------------------------------------------------
(* Route handlers: the outcome of one request in the current state *)

\* GET /shopping-list
shoppingGet(r, dberr) ==
    LET o == ShoppingRepository_getAll(shopping_list, shopping_seq, dberr)
        call == Call("shopping", "getAll", <<>>, dberr, o)
    IN  IF o.threw THEN Forwarded(r, call, o, <<"received">>)
        ELSE Outcome(Render("shopping-list", o.value), <<call>>,
                     <<"received", "responded">>, <<>>,
                     shopping_list, shopping_seq, notices, notices_seq)

\* (variant) POST /shopping-list/add calling the repository before it
\* looks at the validation result
shoppingAddUnchecked(r, dberr) ==
    LET b == ShoppingAddSanitized(r.body)
        o == ShoppingRepository_create(shopping_list, shopping_seq, b.item,
                                       b.quantity, b.store, clock, dberr)
        call == Call("shopping", "create", <<b.item, b.quantity, b.store>>, dberr, o)
    IN  IF o.threw
        THEN Forwarded(r, call, o, <<"received", "validated">>)
        ELSE Outcome(Redirect("/shopping-list"), <<call>>,
                     <<"received", "validated", "persisted", "responded">>,
                     <<>>, o.rows, o.seq, notices, notices_seq)

\* POST /shopping-list/add
shoppingAdd(r, dberr) ==
    LET errors == ShoppingAddErrors(r.body)
        b == ShoppingAddSanitized(r.body)
        o == ShoppingRepository_create(shopping_list, shopping_seq, b.item,
                                       b.quantity, b.store, clock, dberr)
        call == Call("shopping", "create", <<b.item, b.quantity, b.store>>, dberr, o)
    IN  IF errors # <<>> THEN Rejected(errors)
        ELSE IF o.threw
        THEN Forwarded(r, call, o, <<"received", "validated">>)
        ELSE Outcome(Redirect("/shopping-list"), <<call>>,
                     <<"received", "validated", "persisted", "responded">>,
                     <<>>, o.rows, o.seq, notices, notices_seq)

\* POST /shopping-list/delete
shoppingDelete(r, dberr) ==
    LET errors == IdErrors(r.body)
        id == toInt(r.body.id)
        o == ShoppingRepository_delete(shopping_list, shopping_seq, id, dberr)
        call == Call("shopping", "delete", <<id>>, dberr, o)
    IN  IF errors # <<>> THEN Rejected(errors)
        ELSE IF o.threw
        THEN Forwarded(r, call, o, <<"received", "validated">>)
        ELSE Outcome(Redirect("/shopping-list"), <<call>>,
                     <<"received", "validated", "persisted", "responded">>,
                     <<>>, o.rows, o.seq, notices, notices_seq)

\* (variant) the toggle route answering like the delete route
shoppingCheckRedirect(r, dberr) ==
    LET errors == IdErrors(r.body)
        id == toInt(r.body.id)
        o == ShoppingRepository_toggleCheck(shopping_list, shopping_seq, id,
                                            dberr)
        call == Call("shopping", "toggleCheck", <<id>>, dberr, o)
    IN  IF errors # <<>> THEN Rejected(errors)
        ELSE IF o.threw
        THEN Forwarded(r, call, o, <<"received", "validated">>)
        ELSE Outcome(Redirect("/shopping-list"), <<call>>,
                     <<"received", "validated", "persisted", "responded">>,
                     <<>>, o.rows, o.seq, notices, notices_seq)

\* POST /shopping-list/check
shoppingCheck(r, dberr) ==
    LET errors == IdErrors(r.body)
        id == toInt(r.body.id)
        o == ShoppingRepository_toggleCheck(shopping_list, shopping_seq, id,
                                            dberr)
        call == Call("shopping", "toggleCheck", <<id>>, dberr, o)
    IN  IF errors # <<>> THEN Rejected(errors)
        ELSE IF o.threw
        THEN Forwarded(r, call, o, <<"received", "validated">>)
        ELSE Outcome(JsonSuccess, <<call>>,
                     <<"received", "validated", "persisted", "responded">>,
                     <<>>, o.rows, o.seq, notices, notices_seq)

\* GET /notices
noticesGet(r, dberr) ==
    LET o == NoticeRepository_getAll(notices, notices_seq, dberr)
        call == Call("notices", "getAll", <<>>, dberr, o)
    IN  IF o.threw THEN Forwarded(r, call, o, <<"received">>)
        ELSE Outcome(Render("notices", o.value), <<call>>,
                     <<"received", "responded">>, <<>>,
                     shopping_list, shopping_seq, notices, notices_seq)

\* POST /notices/add
noticesAdd(r, dberr) ==
    LET errors == NoticeAddErrors(r.body)
        b == NoticeAddSanitized(r.body)
        o == NoticeRepository_create(notices, notices_seq, b.name, b.message,
                                     clock, dberr)
        call == Call("notices", "create", <<b.name, b.message>>, dberr, o)
    IN  IF errors # <<>> THEN Rejected(errors)
        ELSE IF o.threw
        THEN Forwarded(r, call, o, <<"received", "validated">>)
        ELSE Outcome(Redirect("/notices"), <<call>>,
                     <<"received", "validated", "persisted", "responded">>,
                     <<>>, shopping_list, shopping_seq, o.rows, o.seq)

----------------------------------------------------------------------------
(* The requests the clients send *)

JsonAccept == "application/json"
HtmlAccept == "text/html"

AddBody(item, quantity, store) == Body(item, quantity, store, <<>>, <<>>, <<>>)
NoticeBody(name, message) == Body(<<>>, <<>>, <<>>, name, message, <<>>)
IdBody(id) == Body(<<>>, <<>>, <<>>, <<>>, <<>>, id)

ShoppingAddRequests ==
    { Request("POST", "/shopping-list/add", b[1], b[2], b[3]) : b \in {
        <<AddBody(<<"a">>, <<"1">>, <<"s">>), JsonAccept, FALSE>>,
        <<AddBody(<<" ", "<">>, <<" ", "2", " ">>, <<"t", " ">>), HtmlAccept, FALSE>>,
        <<AddBody(<<" ">>, <<"0">>, <<"s">>), JsonAccept, FALSE>>,
        <<AddBody(<<"a">>, <<"-", "1">>, <<>>), HtmlAccept, FALSE>>,
        <<AddBody(<<"a">>, <<"1", ".", "5">>, <<"s">>), JsonAccept, FALSE>>,
        <<AddBody(<<"a">>, <<"x">>, <<"s">>), HtmlAccept, TRUE>> } }

IdRequests(path) ==
    { Request("POST", path, IdBody(b[1]), b[2], b[3]) : b \in {
        <<<<"1">>, JsonAccept, FALSE>>,
        <<<<"2">>, HtmlAccept, FALSE>>,
        <<<<"x">>, JsonAccept, FALSE>>,
        <<<<" ", "1">>, HtmlAccept, TRUE>> } }

NoticeAddRequests ==
    { Request("POST", "/notices/add", b[1], b[2], b[3]) : b \in {
        <<NoticeBody(<<"n">>, <<"m", "&">>), JsonAccept, FALSE>>,
        <<NoticeBody(<<" ">>, <<"m">>), HtmlAccept, FALSE>>,
        <<NoticeBody(<<"n">>, <<>>), JsonAccept, FALSE>> } }

GetRequests(path) ==
    { Request("GET", path, NoBody, a, FALSE) : a \in {JsonAccept, HtmlAccept} }

----------------------------------------------------------------------------
(* The middleware chain of app.js ahead of the routers: the general rate   *)
(* limiter, the session cookie, the CSRF token, and on each resource mount *)
(* the CSRF protection and the strict rate limiter                         *)

GeneralMaxProduction == 100
GeneralMaxDevelopment == 1000
StrictMaxProduction == 20
StrictMaxDevelopment == 200

GeneralMessage == "Too many requests from this IP, please try again later."
StrictMessage == "Too many submissions from this IP, please try again later."

\* max: process.env.NODE_ENV === 'production' ? 100 : 1000
limiterMax(env) ==
    IF env = "production" THEN GeneralMaxProduction
    ELSE GeneralMaxDevelopment

\* max: process.env.NODE_ENV === 'production' ? 20 : 200
strictLimiterMax(env) ==
    IF env = "production" THEN StrictMaxProduction
    ELSE StrictMaxDevelopment

\* a limiter that counts and never refuses
rateLimitedNever(count, max) == FALSE

\* the limiter counts the request, then refuses it when the count of the
\* window exceeds max; count is the count before this request
rateLimited(count, max) == count + 1 > max

\* res.status(429).send(message)
TooMany(message) ==
    Response(429, "text", "", "", <<>>, FALSE, message, <<>>)

\* the CSRF secret, and the keyed hash of a session identifier and a
\* random value under a secret
Secret == "CSRF_SECRET"
Hmac(secret, sid, rand) == <<secret, sid, rand>>

NoToken == [rand |-> "", mac |-> <<>>]
Token(sid, rand) == [rand |-> rand, mac |-> Hmac(Secret, sid, rand)]
\* a token made without the secret
Forged(sid, rand) == [rand |-> rand, mac |-> Hmac("guess", sid, rand)]

NoSession == ""

\* what a request carries for the CSRF check: the session-id cookie, the
\* x-csrf-token cookie, and req.body._csrf || req.headers['x-csrf-token']
Credentials(session, cookie, submitted) ==
    [session |-> session, cookie |-> cookie, submitted |-> submitted]

\* getSessionIdentifier: req.cookies['session-id'] || 'anonymous'
getSessionIdentifier(c) ==
    IF c.session = NoSession THEN "anonymous" ELSE c.session

\* the cookie's hash is the hash of its random value for this session
validateCsrfTokenCookie(c) ==
    /\ c.cookie # NoToken
    /\ c.cookie.mac = Hmac(Secret, getSessionIdentifier(c), c.cookie.rand)

\* csrf-csrf validateRequest: both tokens present, equal, and the hash valid
validateRequest(c) ==
    /\ c.cookie # NoToken
    /\ c.submitted # NoToken
    /\ c.cookie = c.submitted
    /\ validateCsrfTokenCookie(c)

ignoredMethods == {"GET", "HEAD", "OPTIONS"}

\* a protection that lets every request through
doubleCsrfProtectionOff(method, c) == TRUE

\* doubleCsrfProtection: next() for an ignored method or a valid request,
\* next(invalidCsrfTokenError) otherwise
doubleCsrfProtection(method, c) ==
    method \in ignoredMethods \/ validateRequest(c)

invalidCsrfTokenError == [message |-> "invalid csrf token", status |-> 403]

\* generateCsrfToken(req, res): the cookie's token when it is valid for the
\* session of the request, a new one for that session otherwise
generateCsrfToken(c) ==
    IF validateCsrfTokenCookie(c) THEN c.cookie
    ELSE Token(getSessionIdentifier(c), "r2")

\* the mount a path falls under, "" when it is under none of the three
Mount(path) ==
    CASE path \in {"/shopping-list", "/shopping-list/add",
                   "/shopping-list/delete", "/shopping-list/check"}
           -> "/shopping-list"
      [] path \in {"/notices", "/notices/add"} -> "/notices"
      [] path \in {"/calendar"} -> "/calendar"
      [] OTHER -> ""

\* app.use(function (req, res, next) { next(createError(404)) })
notFound(r) ==
    Outcome(errorHandler([message |-> "Not Found", status |-> 404], r),
            <<>>, <<"unmatched", "forwarded", "responded">>, <<>>,
            shopping_list, shopping_seq, notices, notices_seq)

\* GET /calendar
calendarGet(r) ==
    Outcome(Render("calendar", <<>>), <<>>, <<"received", "responded">>,
            <<>>, shopping_list, shopping_seq, notices, notices_seq)

\* the routers: the handler of the method and path, the 404 forwarder
\* when no route matches
Route(r, dberr) ==
    CASE r.method = "GET" /\ r.path = "/shopping-list" -> shoppingGet(r, dberr)
      [] r.method = "POST" /\ r.path = "/shopping-list/add"
           -> shoppingAdd(r, dberr)
      [] r.method = "POST" /\ r.path = "/shopping-list/delete"
           -> shoppingDelete(r, dberr)
      [] r.method = "POST" /\ r.path = "/shopping-list/check"
           -> shoppingCheck(r, dberr)
      [] r.method = "GET" /\ r.path = "/notices" -> noticesGet(r, dberr)
      [] r.method = "POST" /\ r.path = "/notices/add" -> noticesAdd(r, dberr)
      [] r.method = "GET" /\ r.path = "/calendar" -> calendarGet(r)
      [] OTHER -> notFound(r)

\* a middleware answered: no handler ran and the tables are as they were
Answered(response, stages) ==
    Outcome(response, <<>>, stages, <<>>,
            shopping_list, shopping_seq, notices, notices_seq)

\* hit is the request's number in the general limiter's window, which the
\* RateLimit headers of the response report
Mw(stage, c, setSession, token, hit) ==
    [stage |-> stage, credentials |-> c, setSession |-> setSession,
     csrfToken |-> token, hit |-> hit]

\* one request through the chain, in the order of the app.use calls: what
\* is answered, the two counts after it, and what the middleware did
Chain(r, c, dberr) ==
    LET mounted == Mount(r.path) # ""
        setSession == c.session = NoSession
        token == generateCsrfToken(c)
        \* app.use(path, doubleCsrfProtection, strictLimiter, router):
        \* the strict limiter sees every request of the mount
        counted == mounted
    IN  IF rateLimited(hits, limiterMax(NODE_ENV))
        THEN [out |-> Answered(TooMany(GeneralMessage),
                               <<"limited", "responded">>),
              hits |-> hits + 1, strictHits |-> strictHits,
              mw |-> Mw("limiter", c, FALSE, NoToken, hits + 1)]
        ELSE IF mounted /\ ~doubleCsrfProtection(r.method, c)
        THEN [out |-> Answered(errorHandler(invalidCsrfTokenError, r),
                               <<"forbidden", "forwarded", "responded">>),
              hits |-> hits + 1, strictHits |-> strictHits,
              mw |-> Mw("doubleCsrfProtection", c, setSession, token, hits + 1)]
        ELSE IF counted /\ rateLimited(strictHits, strictLimiterMax(NODE_ENV))
        THEN [out |-> Answered(TooMany(StrictMessage),
                               <<"limited", "responded">>),
              hits |-> hits + 1, strictHits |-> strictHits + 1,
              mw |-> Mw("strictLimiter", c, setSession, token, hits + 1)]
        ELSE [out |-> Route(r, dberr),
              hits |-> hits + 1,
              strictHits |-> IF counted THEN strictHits + 1 ELSE strictHits,
              mw |-> Mw("router", c, setSession, token, hits + 1)]

----------------------------------------------------------------------------
(* The form scripts of the pages: notices.js and shopping-list.js *)

FormNames == {"noticeForm", "shoppingForm", "deleteForm"}

\* the listing page of the resource a form belongs to
Listing(f) == IF f = "noticeForm" THEN "/notices" ELSE "/shopping-list"

\* a form as the loaded page shows it: submit control enabled with its
\* own label, no spinner, no error element, no request under way
FreshForm(f) ==
    [disabled |-> FALSE, pending |-> FALSE, spinner |-> FALSE,
     label |-> IF f = "deleteForm" THEN "Delete" ELSE "Add",
     errors |-> <<>>, alert |-> "", location |-> ""]

FreshForms == [f \in FormNames |-> FreshForm(f)]

\* the request never completed: fetch rejects
NetworkError ==
    Response(0, "failed", "", "", <<>>, FALSE, "Failed to fetch", <<>>)

\* what fetch, which follows the redirect of a successful submission,
\* can settle with: the listing page, the 400 of the validators, the
\* error handler's JSON and page, the limiter's text, or no response
ClientResponses ==
    { Render("listing", <<>>),
      JsonErrors(<<FieldError("item", "Item is required"),
                   FieldError("quantity", "Quantity must be at least 1")>>),
      errorHandler([message |-> "Failed to create shopping item in database",
                    status |-> 0],
                   Request("POST", "/shopping-list/add", NoBody, JsonAccept,
                           FALSE)),
      errorHandler([message |-> "Failed to create notice in database",
                    status |-> 0],
                   Request("POST", "/notices/add", NoBody, HtmlAccept,
                           FALSE)),
      TooMany(GeneralMessage),
      NetworkError }

\* response.ok
ok(response) == response.status >= 200 /\ response.status <= 299

\* response.json() rejects unless the body is JSON
jsonThrows(response) == response.kind # "json"

\* data.errors.map(err => err.msg).join(', ')
RECURSIVE JoinMsgs(_)
JoinMsgs(errors) ==
    IF Len(errors) = 0 THEN <<>>
    ELSE IF Len(errors) = 1 THEN <<errors[1].msg>>
    ELSE <<errors[1].msg, ", ">> \o JoinMsgs(Tail(errors))

\* (variant) submit handlers that leave the error element of the previous
\* attempt in place
formSubmitKeepsError(f, form) ==
    IF f = "deleteForm"
    THEN [form EXCEPT !.disabled = TRUE, !.pending = TRUE,
                      !.label = "Deleting..."]
    ELSE [form EXCEPT !.disabled = TRUE, !.pending = TRUE,
                      !.spinner = TRUE]

\* the synchronous part of a submit handler, up to the fetch
formSubmit(f, form) ==
    IF f = "deleteForm"
    THEN [form EXCEPT !.disabled = TRUE, !.pending = TRUE,
                      !.label = "Deleting..."]
    ELSE [form EXCEPT !.errors = IF @ = <<>> THEN @ ELSE Tail(@),
                      !.disabled = TRUE, !.pending = TRUE,
                      !.spinner = TRUE]

\* the text of the error element for a non-2xx response with a JSON body
ErrorText(f, response) ==
    IF Len(response.errors) > 0 THEN JoinMsgs(response.errors)
    ELSE CASE f = "noticeForm" ->
                <<"Error submitting notice. Please check your input.">>
           [] f = "shoppingForm" ->
                IF response.error # "" THEN <<response.error>>
                ELSE <<"Error adding item. Please try again.">>
           [] f = "deleteForm" -> <<"Error deleting item.">>

\* the text of the error element of the catch block, <<>> when the block
\* shows an alert instead
CatchText(f, message) ==
    CASE f = "noticeForm" -> <<"Network error. Please try again.">>
      [] f = "shoppingForm" ->
            IF message # "" THEN <<message>>
            ELSE <<"Network error. Please try again.">>
      [] f = "deleteForm" -> <<>>

\* what was thrown inside the try block: "" when nothing was
Thrown(response) ==
    IF response = NetworkError THEN "Failed to fetch"
    ELSE IF ~ok(response) /\ jsonThrows(response) THEN "Unexpected token"
    ELSE ""

\* (variant) a handler without the catch block: what is thrown ends it
formSettleNoCatch(f, form, response) ==
    IF Thrown(response) # "" THEN [form EXCEPT !.pending = FALSE]
    ELSE IF ok(response)
    THEN [form EXCEPT !.pending = FALSE, !.location = Listing(f)]
    ELSE [form EXCEPT !.pending = FALSE, !.disabled = FALSE,
                      !.spinner = FALSE, !.label = FreshForm(f).label,
                      !.errors = <<ErrorText(f, response)>> \o @]

\* the rest of a submit handler, once the fetch has settled
formSettle(f, form, response) ==
    IF Thrown(response) # ""
    THEN [form EXCEPT !.pending = FALSE, !.disabled = FALSE,
                      !.spinner = FALSE, !.label = FreshForm(f).label,
                      !.alert = IF f = "deleteForm"
                                THEN "Network error. Please try again."
                                ELSE @,
                      !.errors = IF f = "deleteForm" THEN @
                                 ELSE <<CatchText(f, Thrown(response))>> \o @]
    ELSE IF ok(response)
    THEN [form EXCEPT !.pending = FALSE, !.location = Listing(f)]
    ELSE [form EXCEPT !.pending = FALSE, !.disabled = FALSE,
                      !.spinner = FALSE, !.label = FreshForm(f).label,
                      !.errors = <<ErrorText(f, response)>> \o @]

----------------------------------------------------------------------------
(* Start of the process: database.js opens the store and creates the     *)
(* tables while the modules load, before the server listens              *)

\* the step of the try block that throws, if any
StartupOutcomes == {NoError, "open", "exec"}

Starting == [state |-> "starting", exitCode |-> 0]
Running == [state |-> "running", exitCode |-> 0]
Exited(code) == [state |-> "exited", exitCode |-> code]

\* nothing assigned when the process last started
NoMark == [shopping_list |-> 0, notices |-> 0]

\* database.db and the handle on it: inits counts the runs of the schema
\* script on the file, mark holds how many ids each table had assigned
\* when the script ran last
NoDb == [open |-> FALSE, tables |-> FALSE, inits |-> 0, mark |-> NoMark]

\* a table of the file: its rows and its sqlite_sequence entry
Table(rows, seq) == [rows |-> rows, seq |-> seq]

\* (variant) DROP TABLE, then CREATE TABLE
CreateTable(exists, table) == Table({}, 0)

\* CREATE TABLE IF NOT EXISTS
CreateTableIfNotExists(exists, table) ==
    IF exists THEN table ELSE Table({}, 0)

\* the catch block logs and goes on, and the module exports what it has
initializeDatabaseNoExit(fails, file, tables) ==
    IF fails = NoError
    THEN [process |-> Running,
          db |-> [file EXCEPT !.open = TRUE, !.tables = TRUE,
                              !.inits = @ + 1],
          tables |-> [t \in DOMAIN tables |->
                         CreateTableIfNotExists(file.inits > 0, tables[t])],
          log |-> <<"Database initialized successfully">>]
    ELSE [process |-> Running,
          db |-> [file EXCEPT !.open = (fails = "exec"), !.tables = FALSE],
          tables |-> tables,
          log |-> <<"Failed to initialize database:", fails,
                    "Please check file permissions and disk space">>]

\* try { new DatabaseSync(dbPath); db.exec(CREATE TABLE IF NOT EXISTS ...) }
\* catch { console.error(...); process.exit(1) }
initializeDatabase(fails, file, tables) ==
    IF fails = NoError
    THEN [process |-> Running,
          db |-> [file EXCEPT !.open = TRUE, !.tables = TRUE,
                              !.inits = @ + 1],
          tables |-> [t \in DOMAIN tables |->
                         CreateTableIfNotExists(file.inits > 0, tables[t])],
          log |-> <<"Database initialized successfully">>]
    ELSE [process |-> Exited(1),
          db |-> [file EXCEPT !.open = (fails = "exec"), !.tables = FALSE],
          tables |-> tables,
          log |-> <<"Failed to initialize database:", fails,
                    "Please check file permissions and disk space">>]

----------------------------------------------------------------------------
(* The state machine *)

NoToggle == [id |-> 0, n |-> 0, orig |-> 0]

Environments == {"production", "development"}

NoMw == [stage |-> "none"]
NoTraffic == [pages |-> 0, forbidden |-> 0]
NoToggles == [sent |-> 0, peak |-> 0, flips |-> [id \in 1..MaxCreates |-> 0]]
NoSettle == [response |-> NoResponse, threw |-> ""]

\* the browsers that show the shopping list
Clients == {"c1", "c2"}

\* no checkbox request of the browser has settled since the page loaded
NoClick ==
    [id |-> 0, ok |-> FALSE, alone |-> FALSE, quiet |-> FALSE,
     was |-> FALSE,
     before |-> <<FALSE, FALSE>>, after |-> <<FALSE, FALSE>>,
     stored |-> FALSE, missed |-> 0]

\* a browser that has not loaded the list
NoPage ==
    [rows |-> {},
     checked |-> [id \in 1..MaxCreates |-> FALSE],
     styled |-> [id \in 1..MaxCreates |-> FALSE],
     missed |-> [id \in 1..MaxCreates |-> 0],
     last |-> NoClick]

\* the list page as rendered from the rows of the response: one checkbox
\* per row, ticked and styled 'checked' when the row's checked is 1
Page(list) ==
    LET rows == Range(list)
        on == [id \in 1..MaxCreates |->
                  id \in Ids(rows) /\ RowOf(rows, id).checked = 1]
    IN  [rows |-> Ids(rows), checked |-> on, styled |-> on,
         missed |-> [id \in 1..MaxCreates |-> 0], last |-> NoClick]

NoWire == [flying |-> <<>>, clicks |-> 0]

InitWith(env) ==
    /\ arrival = 0
    /\ process = Starting
    /\ db = NoDb
    /\ NODE_ENV = env
    /\ hits = 0
    /\ strictHits = 0
    /\ mw = NoMw
    /\ traffic = NoTraffic
    /\ inflight = <<>>
    /\ toggles = NoToggles
    /\ forms = FreshForms
    /\ settled = [f \in FormNames |-> NoSettle]
    /\ browsers = [c \in Clients |-> NoPage]
    /\ wire = NoWire
    /\ shopping_list = {}
    /\ shopping_seq = 0
    /\ notices = {}
    /\ notices_seq = 0
    /\ clock = 0
    /\ req = NoRequest
    /\ res = NoResponse
    /\ calls = <<>>
    /\ trace = <<>>
    /\ log = <<>>
    /\ before = [shopping_list |-> {}, notices |-> {}]
    /\ assigned = [shopping_list |-> <<>>, notices |-> <<>>]
    /\ deleted = {}
    /\ lastToggle = NoToggle

\* the route layer does not read NODE_ENV
Init == InitWith("development")

\* the modules load: the store is opened and the tables are created, or
\* the process exits
Startup ==
    /\ process.state = "starting"
    /\ \E fails \in StartupOutcomes :
         \E o \in {initializeDatabase(
                      fails, db,
                      [shopping_list |-> Table(shopping_list, shopping_seq),
                       notices |-> Table(notices, notices_seq)])} :
            /\ process' = o.process
            /\ db' = [o.db EXCEPT !.mark =
                         [shopping_list |-> Len(assigned.shopping_list),
                          notices |-> Len(assigned.notices)]]
            /\ log' = o.log
            /\ shopping_list' = o.tables.shopping_list.rows
            /\ shopping_seq' = o.tables.shopping_list.seq
            /\ notices' = o.tables.notices.rows
            /\ notices_seq' = o.tables.notices.seq
            /\ before' = [shopping_list |-> shopping_list,
                          notices |-> notices]
    /\ UNCHANGED <<clock, req, res, calls, trace, assigned, deleted,
                   lastToggle, arrival, chainVars, raceVars, clientVars>>

\* the call a handler made and the store carried out, if any
Done(out, repo, op) ==
    /\ out.calls # <<>>
    /\ out.calls[1].repo = repo
    /\ out.calls[1].op = op
    /\ ~out.calls[1].threw

\* successive toggles of one id: a toggle right after a first toggle of
\* the same id closes a pair; any other request ends the run
NextToggle(out) ==
    IF Done(out, "shopping", "toggleCheck") /\ out.calls[1].changes = 1
    THEN LET id == out.calls[1].args[1]
         IN  IF lastToggle.id = id /\ lastToggle.n = 1
             THEN [lastToggle EXCEPT !.n = 2]
             ELSE [id |-> id, n |-> 1,
                   orig |-> RowOf(shopping_list, id).checked]
    ELSE NoToggle

\* one request handled from arrival to response
Handle(r, outcome) ==
  \E out \in {outcome} :
    /\ process.state = "running"
    /\ arrival' = IF Done(out, "notices", "create") THEN clock ELSE arrival
    /\ UNCHANGED <<process, db>>
    /\ req' = r
    /\ res' = out.res
    /\ calls' = out.calls
    /\ trace' = out.trace
    /\ log' = out.log
    /\ shopping_list' = out.shopping_list
    /\ shopping_seq' = out.shopping_seq
    /\ notices' = out.notices
    /\ notices_seq' = out.notices_seq
    /\ before' = [shopping_list |-> shopping_list, notices |-> notices]
    /\ assigned' =
         IF Done(out, "shopping", "create")
         THEN [assigned EXCEPT !.shopping_list =
                                   Append(@, out.calls[1].lastInsertRowid)]
         ELSE IF Done(out, "notices", "create")
         THEN [assigned EXCEPT !.notices =
                                   Append(@, out.calls[1].lastInsertRowid)]
         ELSE assigned
    /\ deleted' =
         IF Done(out, "shopping", "delete") /\ out.calls[1].changes = 1
         THEN deleted \cup {out.calls[1].args[1]}
         ELSE deleted
    /\ lastToggle' = NextToggle(out)
    /\ UNCHANGED clock

\* rows created so far, which the model keeps within MaxCreates
Created == Len(assigned.shopping_list) + Len(assigned.notices)

GetShoppingList ==
    \E r \in GetRequests("/shopping-list"), dberr \in DbOutcomes :
        /\ Handle(r, shoppingGet(r, dberr))
        /\ UNCHANGED <<chainVars, raceVars, clientVars>>

PostShoppingAdd ==
    \E r \in ShoppingAddRequests, dberr \in DbOutcomes :
        \E out \in {shoppingAdd(r, dberr)} :
            /\ Done(out, "shopping", "create") => Created < MaxCreates
            /\ Handle(r, out)
            /\ UNCHANGED <<chainVars, raceVars, clientVars>>

PostShoppingDelete ==
    \E r \in IdRequests("/shopping-list/delete"), dberr \in DbOutcomes :
        /\ Handle(r, shoppingDelete(r, dberr))
        /\ UNCHANGED <<chainVars, raceVars, clientVars>>

PostShoppingCheck ==
    \E r \in IdRequests("/shopping-list/check"), dberr \in DbOutcomes :
        /\ Handle(r, shoppingCheck(r, dberr))
        /\ UNCHANGED <<chainVars, raceVars, clientVars>>

GetNotices ==
    \E r \in GetRequests("/notices"), dberr \in DbOutcomes :
        /\ Handle(r, noticesGet(r, dberr))
        /\ UNCHANGED <<chainVars, raceVars, clientVars>>

PostNoticesAdd ==
    \E r \in NoticeAddRequests, dberr \in DbOutcomes :
        \E out \in {noticesAdd(r, dberr)} :
            /\ Done(out, "notices", "create") => Created < MaxCreates
            /\ Handle(r, out)
            /\ UNCHANGED <<chainVars, raceVars, clientVars>>

UnmatchedRequests ==
    { Request("GET", "/nothing", NoBody, JsonAccept, FALSE),
      Request("GET", "/nothing", NoBody, HtmlAccept, FALSE),
      Request("POST", "/calendar", NoBody, HtmlAccept, TRUE) }

\* a request no route matches reaches the 404 forwarder
GetUnmatched ==
    \E r \in UnmatchedRequests :
        /\ Handle(r, Route(r, NoError))
        /\ UNCHANGED <<chainVars, raceVars, clientVars>>

\* time passes between requests
Tick ==
    /\ clock < MaxClock
    /\ clock' = clock + 1
    /\ UNCHANGED <<shopping_list, shopping_seq, notices, notices_seq, req,
                   res, calls, trace, log, before, assigned, deleted,
                   lastToggle, arrival, process, db, chainVars, raceVars,
                   clientVars>>

Next ==
    \/ Startup
    \/ GetShoppingList
    \/ PostShoppingAdd
    \/ PostShoppingDelete
    \/ PostShoppingCheck
    \/ GetNotices
    \/ PostNoticesAdd
    \/ GetUnmatched
    \/ Tick

Spec == Init /\ [][Next]_vars

----------------------------------------------------------------------------
(* The application with its middleware chain: every request enters at the *)
(* general limiter                                                         *)

Visitor == Credentials("s1", Token("s1", "r1"), Token("s1", "r1"))
Browsing == Credentials("s1", Token("s1", "r1"), NoToken)
FirstVisit == Credentials(NoSession, NoToken, NoToken)
Guessed == Credentials("s1", Forged("s1", "r1"), Forged("s1", "r1"))
Stale == Credentials("s1", Token("anonymous", "r1"), Token("anonymous", "r1"))

OtherRequests == { Request("GET", "/nothing", NoBody, HtmlAccept, FALSE) }

ChainAddSubmissions ==
    { <<Request("POST", "/shopping-list/add", b[1], b[2], FALSE), b[3]>> :
        b \in { <<AddBody(<<"a">>, <<"1">>, <<"s">>), JsonAccept, Visitor>>,
                <<AddBody(<<"a">>, <<"1">>, <<"s">>), HtmlAccept, Browsing>>,
                <<AddBody(<<"a">>, <<"1">>, <<"s">>), JsonAccept, Stale>>,
                <<AddBody(<<" ">>, <<"0">>, <<"s">>), JsonAccept, Guessed>>,
                <<AddBody(<<" ">>, <<"0">>, <<"s">>), JsonAccept, Visitor>> } }

ChainCalendarSubmissions ==
    { <<Request("POST", "/calendar", NoBody, HtmlAccept, FALSE), c>> :
        c \in {Visitor, Browsing} }

InitChain == \E env \in Environments : InitWith(env)

\* the request carries a token equal to its token cookie
Matches(c) == c.submitted # NoToken /\ c.submitted = c.cookie

\* the counts stay within MaxOver requests of the general ceiling
WithinCap == hits < limiterMax(NODE_ENV) + MaxOver

\* requests to the resources come after the window's other requests
ResourceTurn ==
    /\ WithinCap
    /\ strictHits < strictLimiterMax(NODE_ENV) + MaxOver
    /\ \/ traffic.pages = 0
       \/ limiterMax(NODE_ENV) - traffic.pages <= MaxSlack

\* one request from the general limiter to the response
ChainStep(r, c, dberr) ==
    \E o \in {Chain(r, c, dberr)} :
        /\ Done(o.out, "shopping", "create") => Created < MaxCreates
        /\ Handle(r, o.out)
        /\ hits' = o.hits
        /\ strictHits' = o.strictHits
        /\ mw' = o.mw
        /\ UNCHANGED <<NODE_ENV, raceVars, clientVars>>

ChainGetOther ==
    /\ WithinCap
    /\ hits = traffic.pages
    /\ \E r \in OtherRequests : ChainStep(r, Browsing, NoError)
    /\ traffic' = [traffic EXCEPT !.pages = @ + 1]

ChainGetShoppingList ==
    /\ ResourceTurn
    /\ \E c \in {FirstVisit, Browsing}, dberr \in DbOutcomes :
         ChainStep(Request("GET", "/shopping-list", NoBody, HtmlAccept,
                           FALSE), c, dberr)
    /\ UNCHANGED traffic

ChainPostShoppingAdd ==
    /\ ResourceTurn
    /\ \E s \in ChainAddSubmissions :
         /\ ~validateRequest(s[2]) => traffic.forbidden < MaxForbidden
         /\ ChainStep(s[1], s[2], NoError)
         /\ traffic' = IF validateRequest(s[2]) THEN traffic
                       ELSE [traffic EXCEPT !.forbidden = @ + 1]

ChainPostCalendar ==
    /\ ResourceTurn
    /\ \E s \in ChainCalendarSubmissions :
         /\ ~validateRequest(s[2]) => traffic.forbidden < MaxForbidden
         /\ ChainStep(s[1], s[2], NoError)
         /\ traffic' = IF validateRequest(s[2]) THEN traffic
                       ELSE [traffic EXCEPT !.forbidden = @ + 1]

ChainPostShoppingCheck ==
    /\ ResourceTurn
    /\ \E dberr \in DbOutcomes :
         ChainStep(Request("POST", "/shopping-list/check", IdBody(<<"1">>),
                           JsonAccept, FALSE), Visitor, dberr)
    /\ UNCHANGED traffic

\* the 15 minutes of both limiters are over: their counts start again
WindowExpires ==
    /\ hits > 0
    /\ hits' = 0
    /\ strictHits' = 0
    /\ traffic' = NoTraffic
    /\ UNCHANGED <<routeVars, process, db, NODE_ENV, mw, raceVars,
                   clientVars>>

NextChain ==
    \/ Startup
    \/ ChainGetOther
    \/ ChainGetShoppingList
    \/ ChainPostShoppingAdd
    \/ ChainPostCalendar
    \/ ChainPostShoppingCheck
    \/ WindowExpires

SpecChain == InitChain /\ [][NextChain]_vars

----------------------------------------------------------------------------
(* Concurrent toggle requests: clients send them without waiting for one  *)
(* another, and the server, which runs one handler at a time to its end,  *)
(* takes them up in any order                                              *)

RaceRequests ==
    { Request("POST", "/shopping-list/check", IdBody(b[1]), b[2], FALSE) :
        b \in { <<<<"1">>, JsonAccept>>, <<<<"2">>, HtmlAccept>>,
                <<<<"x">>, JsonAccept>> } }

RaceAddRequest ==
    Request("POST", "/shopping-list/add", AddBody(<<"a">>, <<"1">>, <<"s">>),
            JsonAccept, FALSE)

\* the sequence without its i-th element
Without(seq, i) == SubSeq(seq, 1, i - 1) \o SubSeq(seq, i + 1, Len(seq))

RaceAdd ==
    /\ Created < MaxCreates
    /\ Handle(RaceAddRequest, shoppingAdd(RaceAddRequest, NoError))
    /\ UNCHANGED <<chainVars, raceVars, clientVars>>

\* a client sends a toggle request
RaceSend ==
    /\ process.state = "running"
    /\ toggles.sent < MaxToggles
    /\ \E r \in RaceRequests :
         /\ inflight' = Append(inflight, r)
         /\ toggles' = [toggles EXCEPT
                           !.sent = @ + 1,
                           !.peak = IF Len(inflight) + 1 > @
                                    THEN Len(inflight) + 1 ELSE @]
    /\ UNCHANGED <<routeVars, process, db, chainVars, clientVars>>

\* the server handles one of the requests in flight, from arrival to
\* response
RaceServe ==
    \E i \in 1..Len(inflight), dberr \in DbOutcomes :
      \E out \in {shoppingCheck(inflight[i], dberr)} :
        /\ Handle(inflight[i], out)
        /\ inflight' = Without(inflight, i)
        /\ toggles' =
             IF Done(out, "shopping", "toggleCheck")
                /\ out.calls[1].changes = 1
             THEN [toggles EXCEPT !.flips[out.calls[1].args[1]] = @ + 1]
             ELSE toggles
        /\ UNCHANGED <<chainVars, clientVars>>

NextRace ==
    \/ Startup
    \/ RaceAdd
    \/ RaceSend
    \/ RaceServe

SpecRace == Init /\ [][NextRace]_vars

----------------------------------------------------------------------------
(* A browser page with its forms; the responses are those the server can  *)
(* send, and the network may fail                                          *)

\* the user submits a form whose submit control is enabled
Submit ==
    /\ \E f \in FormNames :
         /\ ~forms[f].disabled
         /\ Len(forms[f].errors) < MaxErrors
         /\ forms' = [forms EXCEPT ![f] = formSubmit(f, @)]
    /\ UNCHANGED <<routeVars, process, db, chainVars, raceVars, settled,
                   browsers, wire>>

\* the request of a form settles
Settle ==
    /\ \E f \in FormNames, response \in ClientResponses :
         /\ forms[f].pending
         /\ forms' = [forms EXCEPT ![f] = formSettle(f, @, response)]
         /\ settled' = [settled EXCEPT ![f] =
                            [response |-> response,
                             threw |-> Thrown(response)]]
    /\ UNCHANGED <<routeVars, process, db, chainVars, raceVars, browsers,
                   wire>>

\* window.location.replace: the browser loads the listing page
PageLoads ==
    /\ \E f \in FormNames : forms[f].location # ""
    /\ forms' = FreshForms
    /\ settled' = [f \in FormNames |-> NoSettle]
    /\ UNCHANGED <<routeVars, process, db, chainVars, raceVars, browsers,
                   wire>>

NextClient ==
    \/ Submit
    \/ Settle
    \/ PageLoads

SpecClient == Init /\ [][NextClient]_vars

----------------------------------------------------------------------------
(* Vocabulary of the properties *)

\* the route's handler examined the validation result of the last request
Reached == "validated" \in Range(trace)

\* the last request made this repository call and the store carried it out
Did(repo, op) ==
    /\ calls # <<>>
    /\ calls[1].repo = repo
    /\ calls[1].op = op
    /\ ~calls[1].threw

\* the last request made this repository call, successful or not
Called(repo, op) ==
    /\ calls # <<>>
    /\ calls[1].repo = repo
    /\ calls[1].op = op

\* what getAll returns in the current state when the store answers
ShoppingListing ==
    ShoppingRepository_getAll(shopping_list, shopping_seq, NoError)
NoticeListing == NoticeRepository_getAll(notices, notices_seq, NoError)

StrictlyDecreasingIds(list) ==
    \A i \in 1..Len(list) : \A j \in 1..Len(list) :
        i < j => list[i].id > list[j].id

\* the text is blank: empty, or whitespace only
Blank(s) == \A i \in 1..Len(s) : IsWhitespace(s[i])

\* the text, spaces around it aside, is a decimal integer numeral
IntegerText(s) ==
    LET t == trim(s)
        d == IF t # <<>> /\ Head(t) \in {"+", "-"} THEN Tail(t) ELSE t
    IN  d # <<>> /\ Range(d) \subseteq Digits

\* the text is an integer numeral of value at least 1
PositiveIntegerText(s) == IntegerText(s) /\ parseInt(s) >= 1

\* the last request breaks a field rule its route declares
FailsFieldRule ==
    CASE req.path = "/notices/add" ->
            Blank(req.body.name) \/ Blank(req.body.message)
      [] req.path = "/shopping-list/add" ->
            \/ Blank(req.body.item)
            \/ Blank(req.body.store)
            \/ ~PositiveIntegerText(req.body.quantity)
      [] req.path \in {"/shopping-list/delete", "/shopping-list/check"} ->
            ~IntegerText(req.body.id)
      [] OTHER -> FALSE

TablesUnchanged ==
    /\ shopping_list = before.shopping_list
    /\ notices = before.notices

----------------------------------------------------------------------------
(* Properties *)

\* C1: after a successful create(item, quantity, store), the first element
\* of getAll is a row that was not in the table before and carries exactly
\* the item, quantity and store passed to create, with checked = 0.
C1_CreateThenGetAll ==
    Did("shopping", "create") =>
        LET list == ShoppingListing.value
            args == calls[1].args
        IN  /\ ~ShoppingListing.threw
            /\ list # <<>>
            /\ list[1].id \notin Ids(before.shopping_list)
            /\ list[1].item = args[1]
            /\ list[1].quantity = args[2]
            /\ list[1].store = args[3]
            /\ list[1].checked = 0

\* C1 witness: a create that succeeded on a table already holding a row,
\* for the form whose fields the sanitizers changed
C1_Witness ==
    /\ Did("shopping", "create")
    /\ before.shopping_list # {}
    /\ req.body.item # calls[1].args[1]
    /\ res.kind = "redirect"

\* C2: two successive toggleCheck(id) on an existing row leave its checked
\* value as it was before the first of them.
C2_ToggleTwice ==
    lastToggle.n = 2 =>
        /\ lastToggle.id \in Ids(shopping_list)
        /\ RowOf(shopping_list, lastToggle.id).checked = lastToggle.orig

\* C2 witness: a pair of toggles of a row that was checked before the pair
C2_Witness ==
    /\ lastToggle.n = 2
    /\ lastToggle.orig = 1
    /\ Cardinality(shopping_list) = 2

\* C3: delete(id) and toggleCheck(id) for an id without a row do not throw
\* when the store runs the statement, the route reports the same success as
\* for an id with a row (redirect to /shopping-list, {success: true}), and
\* getAll returns what it returned before.
C3_MissingIdIsNoOp ==
    /\ (Called("shopping", "delete") /\ calls[1].store = NoError) =>
           /\ ~calls[1].threw
           /\ res = Redirect("/shopping-list")
    /\ (Called("shopping", "toggleCheck") /\ calls[1].store = NoError) =>
           /\ ~calls[1].threw
           /\ res = JsonSuccess
    /\ ( /\ Called("shopping", "delete") \/ Called("shopping", "toggleCheck")
         /\ calls[1].store = NoError
         /\ calls[1].args[1] \notin Ids(before.shopping_list) ) =>
           /\ calls[1].changes = 0
           /\ ShoppingListing.value = OrderByIdDesc(before.shopping_list)

\* C3 witness: a delete of an id that has no row, in a table that has rows
C3_Witness ==
    /\ Called("shopping", "delete")
    /\ calls[1].args[1] \notin Ids(before.shopping_list)
    /\ before.shopping_list # {}
    /\ res = Redirect("/shopping-list")

\* C4: getAll of either resource returns every row once, in strictly
\* decreasing order of id, and the empty sequence for an empty table; the
\* listing pages show that sequence.
C4_GetAllNewestFirst ==
    /\ ~ShoppingListing.threw /\ ~NoticeListing.threw
    /\ StrictlyDecreasingIds(ShoppingListing.value)
    /\ StrictlyDecreasingIds(NoticeListing.value)
    /\ Range(ShoppingListing.value) = shopping_list
    /\ Range(NoticeListing.value) = notices
    /\ (shopping_list = {} => ShoppingListing.value = <<>>)
    /\ (notices = {} => NoticeListing.value = <<>>)
    /\ (Did("shopping", "getAll") =>
           res.list = ShoppingListing.value /\ StrictlyDecreasingIds(res.list))
    /\ (Did("notices", "getAll") =>
           res.list = NoticeListing.value /\ StrictlyDecreasingIds(res.list))

\* C4 witness: the shopping page listing two rows, the newer one first
C4_Witness ==
    /\ Did("shopping", "getAll")
    /\ Len(res.list) = 2
    /\ res.list[1].id = 2
    /\ res.list[2].id = 1

C6_InvalidRejected ==
    (Reached /\ FailsFieldRule) =>
        /\ res.status = 400
        /\ res.kind = "json"
        /\ res.errors # <<>>
        /\ calls = <<>>
        /\ TablesUnchanged

\* C6 witness: a delete whose id is no integer, refused while the table
\* holds a row
C6_Witness ==
    /\ Reached
    /\ req.path = "/shopping-list/delete"
    /\ req.body.id = <<"x">>
    /\ res.status = 400
    /\ shopping_list # {}

\* C7: in each table, every id a create assigns is greater than every id
\* assigned before it, whether or not the earlier rows still exist.
C7_IdsNeverReused ==
    \A t \in DOMAIN assigned :
        \A i \in 1..Len(assigned[t]) : \A j \in 1..Len(assigned[t]) :
            i < j => assigned[t][i] < assigned[t][j]

\* C7 witness: a create right after the newest row was deleted
C7_Witness ==
    /\ Did("shopping", "create")
    /\ Len(assigned.shopping_list) >= 2
    /\ \A r \in before.shopping_list :
           r.id < assigned.shopping_list[Len(assigned.shopping_list) - 1]
    /\ assigned.shopping_list[Len(assigned.shopping_list) - 1] \in deleted

\* C8: a POST /shopping-list/check that the store carries out is answered
\* {success: true}; the row with that id has checked flipped (1 when it
\* was 0, as it is after creation) and its other fields as before; every
\* other row, and every notice, is as before.
C8_ToggleChangesOnlyChecked ==
    Did("shopping", "toggleCheck") =>
        LET id == calls[1].args[1]
        IN  /\ res = JsonSuccess
            /\ Ids(shopping_list) = Ids(before.shopping_list)
            /\ \A r \in before.shopping_list :
                   IF r.id = id
                   THEN RowOf(shopping_list, id) =
                            [r EXCEPT !.checked = 1 - r.checked]
                   ELSE r \in shopping_list
            /\ notices = before.notices

\* C8 witness: the first toggle of one of two rows
C8_Witness ==
    /\ Did("shopping", "toggleCheck")
    /\ calls[1].changes = 1
    /\ RowOf(shopping_list, calls[1].args[1]).checked = 1
    /\ Cardinality(shopping_list) = 2
    /\ \E r \in shopping_list : r.checked = 0

\* C9: a POST /shopping-list/delete for the id of an existing row, when
\* the store carries the statement out, is answered with a redirect to
\* /shopping-list, and no getAll result holds that id afterwards, whatever
\* is created later.
C9_DeleteIsPermanent ==
    /\ ( /\ Called("shopping", "delete")
         /\ calls[1].store = NoError
         /\ calls[1].args[1] \in Ids(before.shopping_list) ) =>
           /\ res = Redirect("/shopping-list")
           /\ calls[1].args[1] \in deleted
    /\ \A id \in deleted :
           \A i \in 1..Len(ShoppingListing.value) :
               ShoppingListing.value[i].id # id

\* C9 witness: a row created after the newest row was deleted
C9_Witness ==
    /\ deleted # {}
    /\ \E r \in shopping_list : \A id \in deleted : r.id > id
    /\ Did("shopping", "create")
    /\ before.shopping_list = {}

\* C10 as first stated: POST /shopping-list/check is always answered with
\* a JSON body, whatever the request's headers.
C10_AlwaysJson ==
    (Reached /\ req.path = "/shopping-list/check") => res.kind = "json"

\* C10 as amended: a POST /shopping-list/check that reaches its handler is
\* never answered with a redirect; it is answered 200 {success: true} when
\* the toggle statement succeeds and 400 with an errors list when id fails
\* validation, whatever the headers; when the repository fails, the error
\* handler answers 500 with a JSON error body if the Accept header holds
\* 'json' or the request is XHR, and with the rendered error page if not.
C10_JsonUnlessErrorPage ==
    (Reached /\ req.path = "/shopping-list/check") =>
        /\ res.kind # "redirect"
        /\ calls = <<>> =>
               res.status = 400 /\ res.kind = "json" /\ res.errors # <<>>
        /\ Did("shopping", "toggleCheck") => res = JsonSuccess
        /\ (calls # <<>> /\ calls[1].threw) =>
               /\ res.status = 500
               /\ res.error = "Failed to toggle shopping item in database"
               /\ IF isApiRequest(req)
                  THEN res.kind = "json"
                  ELSE res.kind = "render" /\ res.view = "error"

\* C10 witness: the toggle of an existing row, sent without a JSON Accept
\* header, failing in the store
C10_Witness ==
    /\ req.path = "/shopping-list/check"
    /\ calls # <<>> /\ calls[1].threw
    /\ calls[1].args[1] \in Ids(shopping_list)
    /\ ~isApiRequest(req)
    /\ res.kind = "render"

----------------------------------------------------------------------------
(* Properties of the middleware chain *)

\* the last request went through the chain to a resource mount
Mounted == mw.stage # "none" /\ Mount(req.path) # ""

\* the last request took no step of a route handler and changed no row
NoHandlerRan ==
    /\ calls = <<>>
    /\ "received" \notin Range(trace)
    /\ "validated" \notin Range(trace)
    /\ TablesUnchanged

C12_GeneralCeiling ==
    mw.stage # "none" =>
        /\ mw.hit >= 1
        /\ hits \in {0, mw.hit}
        /\ mw.stage = "limiter" <=> mw.hit > limiterMax(NODE_ENV)
        /\ NODE_ENV = "production" /\ mw.stage # "limiter" => mw.hit <= 100
        /\ NODE_ENV # "production" /\ mw.stage # "limiter" => mw.hit <= 1000
        /\ mw.stage = "limiter" =>
              /\ res = TooMany(GeneralMessage)
              /\ res.status = 429
              /\ NoHandlerRan

\* the 101st request of a production window is a well-formed submission
\* with a valid token into an empty table, and the limiter answers it
C12_Witness ==
    /\ NODE_ENV = "production"
    /\ mw.stage = "limiter"
    /\ mw.hit = 101
    /\ req.method = "POST"
    /\ validateRequest(mw.credentials)
    /\ ShoppingAddErrors(req.body) = <<>>
    /\ shopping_list = {}
    /\ res.status = 429

\* C13 as stated: the strict limit is a limit on POST form submissions: a
\* GET of a listing page is limited by the general ceiling only, so it is
\* never answered by the strict limiter.
C13_StrictCountsPostOnly ==
    (Mounted /\ req.method = "GET") => mw.stage # "strictLimiter"

----------------------------------------------------------------------------
(* Properties of the start of the process *)

\* C14: when opening the store or creating the tables fails at startup
\* the process exits with a non-zero status, and a request is handled and
\* a repository operation is executed only by a running process whose
\* store was opened and whose tables were created.
C14_ExitOnFailedInit ==
    /\ process.state \in {"starting", "running", "exited"}
    /\ process.state = "running" => (db.open /\ db.tables)
    /\ (process.state # "starting" /\ ~db.tables) =>
           (process.state = "exited" /\ process.exitCode # 0)
    /\ process.state = "exited" =>
           (process.exitCode = 1 /\ ~db.tables /\ req = NoRequest
            /\ calls = <<>>)
    /\ (calls # <<>> \/ req # NoRequest) =>
           (process.state = "running" /\ db.open /\ db.tables)

\* the store was opened, creating the tables failed, the process is gone
C14_Witness ==
    /\ process = Exited(1)
    /\ db.open
    /\ ~db.tables
    /\ log[1] = "Failed to initialize database:"

----------------------------------------------------------------------------
(* Properties of failures and of the request's stages *)

\* error texts of the store driver, for runs that differ in nothing else
StoreErrorTexts == {"SQLITE_BUSY", "SQLITE_FULL", "SQLITE_CONSTRAINT"}

\* the message each repository operation throws when its statement fails
FixedMessage(repo, op) ==
    CASE repo = "shopping" /\ op = "getAll" ->
            "Failed to retrieve shopping list from database"
      [] repo = "shopping" /\ op = "create" ->
            "Failed to create shopping item in database"
      [] repo = "shopping" /\ op = "delete" ->
            "Failed to delete shopping item from database"
      [] repo = "shopping" /\ op = "toggleCheck" ->
            "Failed to toggle shopping item in database"
      [] repo = "notices" /\ op = "getAll" ->
            "Failed to retrieve notices from database"
      [] repo = "notices" /\ op = "create" ->
            "Failed to create notice in database"

\* C15: when the store's statement fails inside a repository operation,
\* the message that leaves the repository and the response carry only the
\* fixed message of that operation and nothing of the store's error text:
\* the same request on the same tables with any other error text gets the
\* identical response, and only the log line differs.
C15_ErrorTextNeverLeaks ==
    (calls # <<>> /\ calls[1].threw) =>
        /\ res.error = FixedMessage(calls[1].repo, calls[1].op)
        /\ res.status = 500
        /\ log = <<log[1], calls[1].store>>
        /\ \A text \in StoreErrorTexts :
              LET other == Route(req, text)
              IN  /\ other.calls # <<>>
                  /\ other.calls[1].threw
                  /\ other.calls[1].store = text
                  /\ other.res = res
                  /\ other.log = <<log[1], text>>

\* a submission whose INSERT failed, answered with the fixed message
C15_Witness ==
    /\ Called("shopping", "create")
    /\ calls[1].threw
    /\ calls[1].store = "SQLITE_BUSY"
    /\ log = <<"Error creating shopping item:", "SQLITE_BUSY">>
    /\ res.status = 500
    /\ res.error = "Failed to create shopping item in database"

\* C16: a POST /notices/add whose name and message are non-empty after
\* trimming calls the repository; when the store carries the INSERT out
\* the response is a redirect to /notices, the new notice, with the
\* sanitized name and message, is the first element of the listing, and
\* its creation time is not earlier than the time the submission was
\* sent, both read off the store's clock.
C16_NoticeAddedFirst ==
    /\ (req.method = "POST" /\ req.path = "/notices/add"
        /\ ~Blank(req.body.name) /\ ~Blank(req.body.message))
          => Called("notices", "create")
    /\ Did("notices", "create") =>
          LET list == NoticeListing.value
              args == calls[1].args
          IN  /\ res = Redirect("/notices")
              /\ res.status = 302
              /\ list # <<>>
              /\ list[1].id = calls[1].lastInsertRowid
              /\ list[1].id \notin Ids(before.notices)
              /\ list[1].name = args[1]
              /\ list[1].message = args[2]
              /\ args[1] = escape(trim(req.body.name))
              /\ args[2] = escape(trim(req.body.message))
              /\ list[1].created_at >= arrival
              /\ list[1].created_at <= clock

\* a second notice, sent after time has passed, heads the listing
C16_Witness ==
    /\ Did("notices", "create")
    /\ res = Redirect("/notices")
    /\ Len(NoticeListing.value) = 2
    /\ arrival = 1
    /\ NoticeListing.value[1].created_at = 1
    /\ NoticeListing.value[2].created_at = 0

----------------------------------------------------------------------------
(* Properties of concurrent toggles *)

\* C17: whatever number of toggle requests for one id are in flight
\* together and in whatever order the server takes them up, each toggle
\* the store carries out flips the row once: the row's checked value is
\* its original value 0 flipped as many times as toggles were carried out,
\* so after n of them it is n modulo 2.
C17_TogglesAllCount ==
    \A row \in shopping_list :
        /\ row.id \in 1..MaxCreates
        /\ row.checked = toggles.flips[row.id] % 2

\* three toggles of row 1 were in flight together and all were carried out
C17_Witness ==
    /\ inflight = <<>>
    /\ toggles.sent = 3
    /\ toggles.peak = 3
    /\ toggles.flips[1] = 3
    /\ 1 \in Ids(shopping_list)
    /\ RowOf(shopping_list, 1).checked = 1

----------------------------------------------------------------------------
(* Properties of the stages of a request *)

\* the field errors the route of the last request finds in its body
RouteErrors ==
    CASE req.path = "/shopping-list/add" -> ShoppingAddErrors(req.body)
      [] req.path \in {"/shopping-list/delete", "/shopping-list/check"} ->
            IdErrors(req.body)
      [] req.path = "/notices/add" -> NoticeAddErrors(req.body)
      [] OTHER -> <<>>

\* the last request entered a route handler
Received == "received" \in Range(trace)

\* C18 as stated: every request to a resource route passes through
\* received, validated, then either rejected or persisted, then responded;
\* no repository call is made before the validation result is examined,
\* and a rejected request makes no repository call.
C18_RejectedOrPersisted ==
    Received =>
        /\ trace \in {<<"received", "validated", "rejected", "responded">>,
                      <<"received", "validated", "persisted", "responded">>}
        /\ calls # <<>> => RouteErrors = <<>>
        /\ "rejected" \in Range(trace) => calls = <<>>

\* C18: every POST request to a resource route passes through received
\* and validated and then is rejected (400, no repository call, no row
\* changed), persisted (the repository call returned), or, when the
\* repository call throws, forwarded to the error handler, and then
\* responded; a GET request has no validation step: it calls getAll and is
\* responded or forwarded; a repository call is made only for a body
\* without field errors, and a rejected request makes none.
C18_RejectedPersistedOrForwarded ==
    Received =>
        /\ req.method = "POST" =>
              trace \in {<<"received", "validated", "rejected", "responded">>,
                         <<"received", "validated", "persisted", "responded">>,
                         <<"received", "validated", "forwarded", "responded">>}
        /\ req.method = "GET" =>
              trace \in {<<"received", "responded">>,
                         <<"received", "forwarded", "responded">>}
        /\ calls # <<>> => RouteErrors = <<>>
        /\ Len(calls) <= 1
        /\ "rejected" \in Range(trace) <=> RouteErrors # <<>>
        /\ "rejected" \in Range(trace) =>
              (calls = <<>> /\ TablesUnchanged /\ res.status = 400)
        /\ "persisted" \in Range(trace) => (calls # <<>> /\ ~calls[1].threw)
        /\ "forwarded" \in Range(trace) <=> (calls # <<>> /\ calls[1].threw)
        /\ "forwarded" \in Range(trace) => TablesUnchanged

\* a well-formed submission whose INSERT failed: neither rejected nor
\* persisted
C18_Witness ==
    /\ req.method = "POST"
    /\ req.path = "/notices/add"
    /\ trace = <<"received", "validated", "forwarded", "responded">>
    /\ RouteErrors = <<>>
    /\ calls[1].threw
    /\ notices # {}

\* C19: when a repository operation throws inside a route handler the
\* handler sends nothing itself and forwards the error; the central error
\* handler answers once, with the error's status (500 when it has none)
\* and the body {error: message} when Accept holds 'json' or the request
\* is XHR, and with the rendered error page otherwise; a request no route
\* matches is answered 404 the same way.
C19_CentralErrorHandler ==
    /\ (calls # <<>> /\ calls[1].threw) =>
          /\ SubSeq(trace, Len(trace) - 1, Len(trace))
                = <<"forwarded", "responded">>
          /\ "persisted" \notin Range(trace)
          /\ res.status = 500
          /\ res.error = FixedMessage(calls[1].repo, calls[1].op)
          /\ IF isApiRequest(req)
             THEN res.kind = "json"
             ELSE res.kind = "render" /\ res.view = "error"
    /\ "unmatched" \in Range(trace) =>
          /\ trace = <<"unmatched", "forwarded", "responded">>
          /\ calls = <<>>
          /\ TablesUnchanged
          /\ res.status = 404
          /\ res.error = "Not Found"
          /\ IF isApiRequest(req)
             THEN res.kind = "json"
             ELSE res.kind = "render" /\ res.view = "error"
    /\ "forwarded" \in Range(trace) =>
          /\ res.kind \in {"json", "render"}
          /\ res.kind = "json" <=>
                (req.headers.accept = JsonAccept \/ req.headers.xhr)

\* a request for a path without a route, from a browser, answered with the
\* error page and 404, while the tables hold rows
C19_Witness ==
    /\ trace = <<"unmatched", "forwarded", "responded">>
    /\ ~isApiRequest(req)
    /\ res.status = 404
    /\ res.kind = "render"
    /\ res.view = "error"
    /\ shopping_list # {}

----------------------------------------------------------------------------
(* Properties of the form scripts *)

\* C20: for the notice form, the shopping add form and a delete form: the
\* submit control is disabled as long as the form's request is under way;
\* when the request has settled it is disabled only if the response was
\* 2xx and the page is on its way to the resource's listing; after a
\* non-2xx response or a failed request the control is enabled again.
C20_ControlReenabled ==
    \A f \in FormNames :
        /\ forms[f].pending => forms[f].disabled
        /\ (forms[f].disabled /\ ~forms[f].pending) =>
               /\ forms[f].location = Listing(f)
               /\ ok(settled[f].response)
        /\ forms[f].location # "" => forms[f].location = Listing(f)
        /\ (settled[f] # NoSettle /\ ~ok(settled[f].response)
            /\ ~forms[f].pending) =>
               (~forms[f].disabled /\ forms[f].location = "")

\* the delete form's request got the limiter's plain-text 429, whose body
\* response.json() cannot parse, and the button is enabled with its label
C20_Witness ==
    /\ settled["deleteForm"].response = TooMany(GeneralMessage)
    /\ settled["deleteForm"].threw # ""
    /\ ~forms["deleteForm"].pending
    /\ ~forms["deleteForm"].disabled
    /\ forms["deleteForm"].label = "Delete"
    /\ forms["deleteForm"].alert # ""

\* the last submission of the form ended in an error and nothing has
\* happened to the form since
Failed(f) ==
    /\ settled[f] # NoSettle
    /\ ~forms[f].pending
    /\ ~ok(settled[f].response)

\* the fallback text the claim expects of a form
GenericFallback(f) ==
    CASE f = "noticeForm" ->
            <<"Error submitting notice. Please check your input.">>
      [] f = "shoppingForm" -> <<"Error adding item. Please try again.">>
      [] f = "deleteForm" -> <<"Error deleting item.">>

\* C21 as stated: in each form, after a non-2xx response with a non-empty
\* errors list the form shows those messages joined; after every other
\* non-2xx response it shows its generic fallback message; after a request
\* that never completed it shows the generic network-error message; the
\* error element of the previous attempt is removed before the request is
\* sent, so a form shows at most one error element.
C21_OneErrorElement ==
    \A f \in FormNames :
        /\ Len(forms[f].errors) <= 1
        /\ Failed(f) =>
              forms[f].errors =
                 << IF settled[f].response = NetworkError
                    THEN <<"Network error. Please try again.">>
                    ELSE IF Len(settled[f].response.errors) > 0
                    THEN JoinMsgs(settled[f].response.errors)
                    ELSE GenericFallback(f) >>

\* C21: after a non-2xx response with a JSON body and a non-empty errors
\* list each form shows those messages joined by ', ' in a new first error
\* element; after another non-2xx JSON response the notice form and the
\* delete form show their fallback text and the add form shows the body's
\* error text (its fallback only when there is none); after a non-2xx
\* response whose body is not JSON, or a request that never completed, the
\* notice form shows the network-error text, the add form shows the
\* message of what was thrown, and the delete form shows an alert and no
\* new error element; the notice form and the add form remove the error
\* element of the previous attempt before sending and so show at most one,
\* the delete form removes none.
C21_ErrorElementPerForm ==
    \A f \in FormNames :
        /\ f # "deleteForm" => Len(forms[f].errors) <= 1
        /\ (f # "deleteForm" /\ forms[f].pending) => forms[f].errors = <<>>
        /\ Failed(f) =>
              LET r == settled[f].response
                  shown == IF forms[f].errors = <<>> THEN <<>>
                           ELSE forms[f].errors[1]
                  parsed == r # NetworkError /\ r.kind = "json"
              IN  /\ (parsed /\ Len(r.errors) > 0) =>
                         shown = JoinMsgs(r.errors)
                  /\ (parsed /\ Len(r.errors) = 0) =>
                         shown = CASE f = "noticeForm" -> GenericFallback(f)
                                   [] f = "deleteForm" -> GenericFallback(f)
                                   [] f = "shoppingForm" ->
                                        IF r.error # "" THEN <<r.error>>
                                        ELSE GenericFallback(f)
                  /\ (~parsed /\ f = "noticeForm") =>
                         shown = <<"Network error. Please try again.">>
                  /\ (~parsed /\ f = "shoppingForm") =>
                         shown = <<settled[f].threw>>
                  /\ (~parsed /\ f = "deleteForm") =>
                         forms[f].alert = "Network error. Please try again."
                  /\ parsed <=> settled[f].threw = ""

\* the delete form shows the error elements of two attempts, and the add
\* form shows the parser's message for the limiter's text body
C21_Witness ==
    /\ Failed("deleteForm")
    /\ Len(forms["deleteForm"].errors) = 2
    /\ Failed("shoppingForm")
    /\ settled["shoppingForm"].response = TooMany(GeneralMessage)
    /\ forms["shoppingForm"].errors = << <<"Unexpected token">> >>

----------------------------------------------------------------------------
(* The checkboxes of the shopping list in two browsers *)

DigitChar(d) == CHOOSE c \in Digits : DigitVal(c) = d

\* the decimal text of a row id, as the page holds it in data-id
RECURSIVE Decimal(_)
Decimal(n) ==
    IF n < 10 THEN <<DigitChar(n)>>
    ELSE Decimal(n \div 10) \o <<DigitChar(n % 10)>>

\* (variant) a click that leaves the checkbox as it was
checkboxChangeNone(page, id) == page

\* the browser's own effect of a click, before the change handler runs
checkboxChange(page, id) == [page EXCEPT !.checked[id] = ~@]

\* (variant) a change handler that leaves the checkbox as clicked when the
\* request fails
checkboxSettleNoRevert(page, id, response) ==
    IF ok(response) THEN [page EXCEPT !.styled[id] = ~@] ELSE page

\* the change handler once its fetch has settled
checkboxSettle(page, id, response) ==
    IF ok(response) THEN [page EXCEPT !.styled[id] = ~@]
    ELSE [page EXCEPT !.checked[id] = ~@]

CheckRequest(id) ==
    Request("POST", "/shopping-list/check", IdBody(Decimal(id)), JsonAccept,
            FALSE)

ListRequest == Request("GET", "/shopping-list", NoBody, HtmlAccept, FALSE)

\* the requests of a checkbox that have not settled
Flying(c, id) ==
    { i \in 1..Len(wire.flying) :
        wire.flying[i].client = c /\ wire.flying[i].id = id }

\* the row's stored checked value as a boolean
Stored(rows, id) == id \in Ids(rows) /\ RowOf(rows, id).checked = 1

\* what the handler's settling leaves in the browser's record
Click(m, response, page, next, rows, flipped) ==
    [id |-> m.id, ok |-> ok(response), alone |-> m.alone,
     quiet |-> Cardinality(Flying(m.client, m.id)) = 1, was |-> m.was,
     before |-> <<page.checked[m.id], page.styled[m.id]>>,
     after |-> <<next.checked[m.id], next.styled[m.id]>>,
     stored |-> Stored(rows, m.id),
     missed |-> IF flipped /\ ~ok(response) THEN 1 - page.missed[m.id]
                ELSE page.missed[m.id]]

\* the list is made up before the first browser opens it
BrowserAdd ==
    /\ \A c \in Clients : browsers[c] = NoPage
    /\ RaceAdd

BrowserLoad ==
    \E c \in Clients :
      \E out \in {shoppingGet(ListRequest, NoError)} :
        /\ \A i \in 1..Len(wire.flying) : wire.flying[i].client # c
        /\ Handle(ListRequest, out)
        /\ browsers' = [browsers EXCEPT ![c] =
                           IF out.res.kind = "render"
                              /\ out.res.view = "shopping-list"
                           THEN Page(out.res.list) ELSE NoPage]
        /\ UNCHANGED <<chainVars, raceVars, forms, settled, wire>>

\* the user clicks a checkbox: the browser flips it and the handler sends
\* the request
BrowserClick ==
    \E c \in Clients :
      \E id \in browsers[c].rows :
        /\ wire.clicks < MaxClicks
        /\ browsers' = [browsers EXCEPT ![c] = checkboxChange(@, id)]
        /\ wire' =
             [flying |->
                 Append([i \in 1..Len(wire.flying) |->
                            IF i \in Flying(c, id)
                            THEN [wire.flying[i] EXCEPT !.alone = FALSE]
                            ELSE wire.flying[i]],
                        [client |-> c, id |-> id,
                         was |-> browsers[c].checked[id],
                         alone |-> Flying(c, id) = {}]),
              clicks |-> wire.clicks + 1]
        /\ UNCHANGED <<routeVars, process, db, chainVars, raceVars, forms,
                       settled>>

\* the server handles a checkbox request and the browser's handler gets
\* the response, or the response is lost on its way
BrowserSettle ==
    \E i \in 1..Len(wire.flying), dberr \in DbOutcomes, lost \in BOOLEAN :
      LET m == wire.flying[i]
          out == shoppingCheck(CheckRequest(m.id), dberr)
          response == IF lost THEN NetworkError ELSE out.res
          flipped == /\ Done(out, "shopping", "toggleCheck")
                     /\ out.calls[1].changes = 1
          next == checkboxSettle(browsers[m.client], m.id, response)
      IN  /\ lost => dberr = NoError
          /\ Handle(CheckRequest(m.id), out)
          /\ wire' = [wire EXCEPT !.flying = Without(@, i)]
          /\ browsers' =
               [d \in Clients |->
                  IF d = m.client
                  THEN [next EXCEPT
                          !.last = Click(m, response, browsers[d], next,
                                         out.shopping_list, flipped),
                          !.missed[m.id] =
                              IF flipped /\ ~ok(response) THEN 1 - @ ELSE @]
                  ELSE IF flipped /\ m.id \in browsers[d].rows
                  THEN [browsers[d] EXCEPT !.missed[m.id] = 1 - @]
                  ELSE browsers[d]]
          /\ UNCHANGED <<chainVars, raceVars, forms, settled>>

\* a checkbox request never reaches the server
BrowserFail ==
    \E i \in 1..Len(wire.flying) :
      LET m == wire.flying[i]
          next == checkboxSettle(browsers[m.client], m.id, NetworkError)
      IN  /\ wire' = [wire EXCEPT !.flying = Without(@, i)]
          /\ browsers' =
               [browsers EXCEPT ![m.client] =
                   [next EXCEPT !.last = Click(m, NetworkError,
                                               browsers[m.client], next,
                                               shopping_list, FALSE)]]
          /\ UNCHANGED <<routeVars, process, db, chainVars, raceVars, forms,
                         settled>>

NextBrowser ==
    \/ Startup
    \/ BrowserAdd
    \/ BrowserLoad
    \/ BrowserClick
    \/ BrowserSettle
    \/ BrowserFail

SpecBrowser == Init /\ [][NextBrowser]_vars

C28_ShownEqualsStored ==
    \A c \in Clients :
        (browsers[c].last.id # 0 /\ browsers[c].last.ok) =>
            browsers[c].last.after[1] = browsers[c].last.stored

\* C28: after a browser's toggle has succeeded, with no other request of
\* that checkbox in flight, the checkbox it shows equals the row's stored
\* checked value exactly when an even number of toggles of the row were
\* carried out since the page loaded without this browser seeing their
\* success (the other browser's toggles, its own whose response was
\* lost); after an odd number it shows the opposite of the stored value.
C28_ShownEqualsStoredIfNoneMissed ==
    \A c \in Clients :
        LET l == browsers[c].last
        IN  /\ (l.id # 0 /\ l.ok /\ l.quiet) =>
                  (l.after[1] = l.stored <=> l.missed = 0)
            /\ \A id \in browsers[c].rows :
                  (browsers[c].styled[id] = Stored(shopping_list, id))
                     <=> browsers[c].missed[id] = 0

\* both browsers loaded the list with row 1 unchecked, the first ticked it
\* with success, then the second did: the second shows it ticked and the
\* store holds it unchecked
C28_Witness ==
    /\ wire.flying = <<>>
    /\ \A c \in Clients : browsers[c].last.id = 1 /\ browsers[c].last.ok
    /\ \A c \in Clients : browsers[c].checked[1]
    /\ ~Stored(shopping_list, 1)
    /\ \E c \in Clients : browsers[c].last.missed = 1

----------------------------------------------------------------------------
(* The repository revision that checks the quantity itself *)

\* a JavaScript value: a number or a string
Num(n) == [type |-> "number", value |-> n, text |-> <<>>]
Str(s) == [type |-> "string", value |-> 0, text |-> s]

NotANumber == [nan |-> TRUE, value |-> 0]

\* ToNumber of the relational comparison: a number as it is, a string by
\* its trimmed decimal text, the empty string as 0, any other text as NaN
ToNumber(v) ==
    IF v.type = "number" THEN [nan |-> FALSE, value |-> v.value]
    ELSE LET t == trim(v.text)
             signed == t # <<>> /\ Head(t) \in {"+", "-"}
             d == IF signed THEN Tail(t) ELSE t
         IN  IF t = <<>> THEN [nan |-> FALSE, value |-> 0]
             ELSE IF d = <<>> \/ ~(Range(d) \subseteq Digits)
             THEN NotANumber
             ELSE [nan |-> FALSE,
                   value |-> IF Head(t) = "-" THEN 0 - DigitsValue(d, 0)
                             ELSE DigitsValue(d, 0)]

\* quantity > 0: false for NaN
GreaterThanZero(v) == ~ToNumber(v).nan /\ ToNumber(v).value > 0

\* the outcome of a repository call with the number of statements run
Ran(o, statements) ==
    [threw |-> o.threw, message |-> o.message, logged |-> o.logged,
     rows |-> o.rows, seq |-> o.seq, changes |-> o.changes,
     lastInsertRowid |-> o.lastInsertRowid, statements |-> statements]

\* (variant) create that hands every quantity to the INSERT
CheckedRepository_createAny(rows, seq, item, quantity, store, now, dberr) ==
    Ran(ShoppingRepository_create(rows, seq, item, quantity, store, now,
                                  dberr), 1)

CheckedRepository_create(rows, seq, item, quantity, store, now, dberr) ==
    IF GreaterThanZero(quantity)
    THEN Ran(ShoppingRepository_create(rows, seq, item, quantity, store,
                                       now, dberr), 1)
    ELSE Ran([Threw(rows, seq, "Invalid Quantity: ", NoError,
                    "Error: Quantity must be greater than 0")
                 EXCEPT !.logged = <<"Invalid Quantity: ", quantity>>], 0)

Quantities ==
    {Num(0 - 1), Num(0), Num(1), Num(2), Str(<<"2">>),
     Str(<<"-", "1">>), Str(<<>>), Str(<<"x">>)}

CheckedItems == {<<"a">>, <<"b">>}

\* a caller creates an item through the checking repository
CreateChecked ==
    \E item \in CheckedItems, quantity \in Quantities, dberr \in DbOutcomes :
      LET o == CheckedRepository_create(shopping_list, shopping_seq, item,
                                        quantity, <<"s">>, clock, dberr)
      IN  /\ process.state = "running"
          /\ Len(assigned.shopping_list) < MaxCreates
          /\ shopping_list' = o.rows
          /\ shopping_seq' = o.seq
          /\ calls' = <<[repo |-> "shopping", op |-> "create",
                         args |-> <<item, quantity, <<"s">>>>,
                         store |-> dberr, threw |-> o.threw,
                         changes |-> o.changes,
                         lastInsertRowid |-> o.lastInsertRowid,
                         message |-> o.message,
                         statements |-> o.statements]>>
          /\ log' = o.logged
          /\ before' = [before EXCEPT !.shopping_list = shopping_list]
          /\ assigned' = IF o.threw THEN assigned
                         ELSE [assigned EXCEPT !.shopping_list =
                                   Append(@, o.lastInsertRowid)]
          /\ UNCHANGED <<notices, notices_seq, clock, req, res, trace,
                         deleted, lastToggle, arrival, process, db,
                         chainVars, raceVars, clientVars>>

NextChecked ==
    \/ Startup
    \/ CreateChecked
    \/ Tick

SpecChecked == Init /\ [][NextChecked]_vars

\* C23: in the revision that checks the quantity itself, create with a
\* quantity <= 0 throws an error other than the persistence-failure error,
\* runs no statement and leaves the table as it was; create with a
\* quantity > 0 runs the INSERT, which adds exactly one row when the store
\* accepts it.
C23_QuantityChecked ==
    calls # <<>> =>
        LET c == calls[1]
            n == ToNumber(c.args[2])
            added == shopping_list \ before.shopping_list
        IN  /\ (~n.nan /\ n.value <= 0) =>
                  /\ c.threw
                  /\ c.message = "Error: Quantity must be greater than 0"
                  /\ c.message # "Failed to create shopping item in database"
                  /\ c.statements = 0
                  /\ shopping_list = before.shopping_list
            /\ (~n.nan /\ n.value > 0) =>
                  /\ c.statements = 1
                  /\ c.store = NoError =>
                        /\ ~c.threw
                        /\ before.shopping_list \subseteq shopping_list
                        /\ Cardinality(added) = 1
                        /\ \A row \in added :
                              /\ row.id = c.lastInsertRowid
                              /\ row.item = c.args[1]
                              /\ row.quantity = c.args[2]

\* a create with quantity 0 was refused while the table held a row, after
\* which the table still holds that row only
C23_Witness ==
    /\ calls # <<>>
    /\ calls[1].args[2] = Num(0)
    /\ calls[1].threw
    /\ calls[1].statements = 0
    /\ Cardinality(shopping_list) = 1
    /\ \E row \in shopping_list : row.quantity = Num(1)

----------------------------------------------------------------------------
(* The listing of the first repository revision *)

MinOf(S) == CHOOSE m \in S : \A x \in S : m <= x

\* SELECT * of a rowid table with no ORDER BY: SQLite walks the table's
\* b-tree, which is keyed by rowid
RECURSIVE TableScan(_)
TableScan(rows) ==
    IF rows = {} THEN <<>>
    ELSE LET first == RowOf(rows, MinOf(Ids(rows)))
         IN  <<first>> \o TableScan(rows \ {first})

\* (variant) an array left in the order it was returned in
reverseNone(seq) == seq

\* Array.prototype.reverse
reverse(seq) == [i \in 1..Len(seq) |-> seq[Len(seq) + 1 - i]]

\* getAll of the first revision: query.all().reverse()
EarlierRepository_getAll(rows) == reverse(TableScan(rows))

\* C24: in every state that create and delete can reach, the listing of
\* the first revision (all rows as the table scan returns them, reversed)
\* and the listing of the later one (ORDER BY id DESC) are the same
\* sequence, for the shopping list and for the notices.
C24_ReversedScanIsIdDesc ==
    /\ EarlierRepository_getAll(shopping_list) =
          ShoppingRepository_getAll(shopping_list, shopping_seq,
                                    NoError).value
    /\ EarlierRepository_getAll(notices) =
          NoticeRepository_getAll(notices, notices_seq, NoError).value

\* the list holds two rows, and the later listing just returned, row 2
\* before row 1, is what the first revision returns
C24_Witness ==
    /\ Cardinality(shopping_list) = 2
    /\ res.view = "shopping-list"
    /\ Len(res.list) >= 2
    /\ res.list = EarlierRepository_getAll(shopping_list)
    /\ res.list[1].id > res.list[2].id

----------------------------------------------------------------------------
(* Restarts of the server on the same store file *)

RestartNoticeRequest ==
    Request("POST", "/notices/add", NoticeBody(<<"n">>, <<"m">>), JsonAccept,
            FALSE)

RestartDeleteRequest ==
    Request("POST", "/shopping-list/delete", IdBody(<<"1">>), JsonAccept,
            FALSE)

\* the process ends and is started again: the handle and what the process
\* held in memory are gone, database.db stays as it is
Restart ==
    /\ process.state \in {"running", "exited"}
    /\ db.inits <= MaxRestarts
    /\ process' = Starting
    /\ db' = [db EXCEPT !.open = FALSE, !.tables = FALSE]
    /\ req' = NoRequest
    /\ res' = NoResponse
    /\ calls' = <<>>
    /\ trace' = <<>>
    /\ log' = <<>>
    /\ lastToggle' = NoToggle
    /\ UNCHANGED <<shopping_list, shopping_seq, notices, notices_seq, clock,
                   before, assigned, deleted, arrival, chainVars, raceVars,
                   clientVars>>

RestartNotice ==
    /\ Created < MaxCreates
    /\ Handle(RestartNoticeRequest, noticesAdd(RestartNoticeRequest, NoError))
    /\ UNCHANGED <<chainVars, raceVars, clientVars>>

RestartDelete ==
    /\ Handle(RestartDeleteRequest,
              shoppingDelete(RestartDeleteRequest, NoError))
    /\ UNCHANGED <<chainVars, raceVars, clientVars>>

NextRestart ==
    \/ Startup
    \/ Restart
    \/ RaceAdd
    \/ RestartNotice
    \/ RestartDelete
    \/ Tick

SpecRestart == Init /\ [][NextRestart]_vars

\* the ids a table assigned before and after the process started last
AssignedBefore(t) == SubSeq(assigned[t], 1, db.mark[t])
AssignedSince(t) == SubSeq(assigned[t], db.mark[t] + 1, Len(assigned[t]))

\* C25: running the store initialization on a file that already holds
\* both tables (a restart) leaves every notice and every shopping item as
\* it was and does not reset the assignment of ids: every id assigned
\* after the restart is greater than every id assigned before it.
C25_RestartKeepsRowsAndIds ==
    /\ (process.state = "running" /\ req = NoRequest) =>
          /\ shopping_list = before.shopping_list
          /\ notices = before.notices
    /\ \A t \in {"shopping_list", "notices"} :
          \A old \in Range(AssignedBefore(t)), new \in Range(AssignedSince(t)) :
              old < new

\* item 1 was created and deleted, the server was restarted on the file,
\* and the item created since got id 2
C25_Witness ==
    /\ db.inits = 2
    /\ process.state = "running"
    /\ deleted = {1}
    /\ AssignedBefore("shopping_list") = <<1>>
    /\ AssignedSince("shopping_list") = <<2>>
    /\ Ids(shopping_list) = {2}

----------------------------------------------------------------------------
(* What an operation leaves alone *)

\* the rows of a table other than the row of the id
Others(rows, id) == { r \in rows : r.id # id }

\* C26: a request to one resource changes no row of the other resource;
\* delete(id) and toggleCheck(id) change no row other than the row of that
\* id; and no request modifies or removes a notice, so the notices only
\* grow and each keeps its id, name, message and created_at.
C26_OthersUntouched ==
    /\ Mount(req.path) = "/shopping-list" => notices = before.notices
    /\ Mount(req.path) = "/notices" =>
          shopping_list = before.shopping_list
    /\ (Called("shopping", "delete") \/ Called("shopping", "toggleCheck")) =>
          /\ notices = before.notices
          /\ Others(shopping_list, calls[1].args[1]) =
                Others(before.shopping_list, calls[1].args[1])
    /\ before.notices \subseteq notices
    /\ \A n \in notices, m \in notices : n.id = m.id => n = m

\* item 1 of two was deleted and item 2 is as it was
C26_Witness ==
    /\ Did("shopping", "delete")
    /\ calls[1].args[1] = 1
    /\ calls[1].changes = 1
    /\ Cardinality(before.shopping_list) = 2
    /\ Ids(shopping_list) = {2}
    /\ shopping_list \subseteq before.shopping_list

----------------------------------------------------------------------------
(* A browser that starts without cookies *)

\* crypto.randomBytes(32).toString('hex') of the session middleware
NewSessionId == "s1"

\* what the browser holds after a response: the cookies it was sent, and in
\* the page's form the token the page was rendered with
Jar(m, response) ==
    IF m.stage = "none" THEN FirstVisit
    ELSE [session |-> IF m.setSession THEN NewSessionId
                      ELSE m.credentials.session,
          cookie |-> IF m.csrfToken = NoToken
                        \/ m.csrfToken = m.credentials.cookie
                     THEN m.credentials.cookie ELSE m.csrfToken,
          submitted |-> IF response.kind = "render" /\ response.status = 200
                        THEN m.csrfToken ELSE m.credentials.submitted]

FormPages == {"/shopping-list", "/notices"}

\* the browser loads a form page with the cookies it holds
VisitGet ==
    /\ hits < MaxVisits
    /\ \E path \in FormPages, dberr \in DbOutcomes :
         ChainStep(Request("GET", path, NoBody, HtmlAccept, FALSE),
                   Jar(mw, res), dberr)
    /\ UNCHANGED traffic

\* the browser submits the form of the page it shows, with the page's
\* _csrf value and the cookies it holds
VisitSubmit ==
    /\ hits < MaxVisits
    /\ Jar(mw, res).submitted # NoToken
    /\ \E accept \in {JsonAccept, HtmlAccept}, dberr \in DbOutcomes :
         \E r \in {Request("POST", "/shopping-list/add",
                           AddBody(<<"a">>, <<"1">>, <<"s">>), accept, FALSE),
                   Request("POST", "/notices/add",
                           NoticeBody(<<"n">>, <<"m">>), accept, FALSE)} :
            ChainStep(r, Jar(mw, res), dberr)
    /\ UNCHANGED traffic

NextVisit ==
    \/ Startup
    \/ VisitGet
    \/ VisitSubmit

SpecVisit == InitChain /\ [][NextVisit]_vars

\* the last request was a submission made with exactly what the first
\* response to a browser without cookies hands out
FirstSubmission ==
    /\ req.method = "POST"
    /\ mw.stage # "none"
    /\ mw.credentials =
          Jar(Chain(Request("GET", "/shopping-list", NoBody, HtmlAccept,
                            FALSE), FirstVisit, NoError).mw,
              Render("shopping-list", <<>>))

\* C27: a browser without cookies that loads a form page with GET and
\* submits the form with the _csrf value and the cookies of that first
\* response passes the CSRF check: its first submission is not answered
\* 403.
C27_FirstSubmissionPasses ==
    FirstSubmission => res.status # 403

\* the same browser, having loaded the page again with its session cookie,
\* submits the form and the item is stored
C27_SecondPageAccepted ==
    /\ req.method = "POST"
    /\ mw.stage = "router"
    /\ mw.credentials.session = NewSessionId
    /\ mw.credentials.submitted = Token(NewSessionId, "r2")
    /\ Did("shopping", "create")

----------------------------------------------------------------------------
(* One response for every request *)

\* how many times the stage occurs in the stages of the last request
Times(stage) == Cardinality({ i \in 1..Len(trace) : trace[i] = stage })

\* the response has the shape the central error handler gives
FromErrorHandler ==
    /\ res.status >= 400
    /\ \/ res.kind = "json" /\ res.error # "" /\ res.errors = <<>>
       \/ res.kind = "render" /\ res.view = "error"

\* C29: every request that enters the middleware chain gets exactly one
\* response, and it is one of: 429 of a limiter, 403 of the CSRF check,
\* 400 with field errors, a redirect, the JSON success acknowledgment, a
\* rendered page, or the error handler's response; a handler that forwards
\* an error has not answered, and one that has answered forwards nothing.
C29_ExactlyOneResponse ==
    mw.stage # "none" =>
        /\ Times("responded") = 1
        /\ trace[Len(trace)] = "responded"
        /\ res # NoResponse
        /\ \/ res.status = 429 /\ res.kind = "text"
              /\ mw.stage \in {"limiter", "strictLimiter"}
           \/ res.status = 403 /\ mw.stage = "doubleCsrfProtection"
              /\ FromErrorHandler
           \/ res.status = 400 /\ res.kind = "json" /\ res.errors # <<>>
           \/ res.kind = "redirect" /\ res.location # ""
           \/ res = JsonSuccess
           \/ res.status = 200 /\ res.kind = "render" /\ res.view # "error"
           \/ res.status \in {404, 500} /\ FromErrorHandler
        /\ Times("forwarded") <= 1
        /\ Times("forwarded") = 1 <=> FromErrorHandler
        /\ Times("forwarded") = 1 =>
              /\ Len(trace) >= 2
              /\ trace[Len(trace) - 1] = "forwarded"

\* a toggle passed both limiters and the CSRF check, the store failed, and
\* the one response is the error handler's
C29_Witness ==
    /\ mw.stage = "router"
    /\ req.path = "/shopping-list/check"
    /\ Called("shopping", "toggleCheck")
    /\ trace = <<"received", "validated", "forwarded", "responded">>
    /\ res.status = 500
    /\ res.kind = "json"

----------------------------------------------------------------------------
(* The values of checked *)

\* C30: the checked value of every shopping item is 0 or 1; create stores
\* 0, and toggleCheck of an existing id turns 0 into 1 and 1 into 0.
C30_CheckedIsZeroOrOne ==
    /\ \A row \in shopping_list : row.checked \in {0, 1}
    /\ Did("shopping", "create") =>
          \A row \in shopping_list \ before.shopping_list : row.checked = 0
    /\ (Did("shopping", "toggleCheck") /\ calls[1].changes = 1) =>
          LET id == calls[1].args[1]
              old == RowOf(before.shopping_list, id).checked
              new == RowOf(shopping_list, id).checked
          IN  /\ old = 0 => new = 1
              /\ old = 1 => new = 0
              /\ old \in {0, 1}

\* an item that was checked has been toggled and is unchecked again
C30_Witness ==
    /\ Did("shopping", "toggleCheck")
    /\ calls[1].changes = 1
    /\ RowOf(before.shopping_list, calls[1].args[1]).checked = 1
    /\ RowOf(shopping_list, calls[1].args[1]).checked = 0

====
